---------------------------- MODULE Spec2Model ----------------------------
(***************************************************************************)
(* LearnCube reports (src/main.js): the session normalizer processData,    *)
(* the upload handler that builds the in-memory model, and the report      *)
(* builders that read it.                                                  *)
(*                                                                         *)
(* Encoding of JavaScript values.                                          *)
(*   - A CSV cell is a string; "" is the empty cell.  Undefined stands for *)
(*     the value of a property that does not exist.                        *)
(*   - A number is an integer; NaN is one reserved integer that every      *)
(*     arithmetic operator propagates and every comparison rejects.        *)
(*   - A timestamp is a cell "YYYY-MM-DD HH:MM:SS"; DateSeconds is the     *)
(*     Date parse of the cells used here (seconds on a common time axis),  *)
(*     NaN for any other non-empty cell (an Invalid Date).                 *)
(*   - The result of x.toFixed(2) is kept as the number of hundredths.     *)
(*     An interval field is <<>> for the blank '' and <<h>> for a string   *)
(*     produced by toFixed(2).                                             *)
(*   - A JS object used as an ordered map (processData's output, the       *)
(*     teacherReports) is a sequence in key insertion order.               *)
(***************************************************************************)
EXTENDS Integers, Sequences, FiniteSets, TLC

VARIABLES
    classesFile,        \* rows parseCSVFile resolves to for CLASSES.csv
    participantsFile,   \* rows parseCSVFile resolves to for PARTICIPANTS.csv
    data,               \* let data: the processed model (<<>> while null)
    courses,            \* let courses
    companies,          \* let companies
    validatedStudentUsernames,
    durationFilter,     \* the durationFilter checkboxes: value -> checked
    panel,              \* the panel show() made visible
    report              \* what the last generate handler rendered

vars == <<classesFile, participantsFile, data, courses, companies,
          validatedStudentUsernames, durationFilter, panel, report>>

-----------------------------------------------------------------------------
(* JavaScript numbers and strings *)

NaN == 0 - 1000000000
Undefined == "<undefined>"

IsNaN(x) == x = NaN
Falsy(s) == s = "" \/ s = Undefined            \* !s for a string cell
JsLt(a, b) == ~IsNaN(a) /\ ~IsNaN(b) /\ a < b  \* a < b
JsGt(a, b) == ~IsNaN(a) /\ ~IsNaN(b) /\ a > b  \* a > b
JsSub(a, b) == IF IsNaN(a) \/ IsNaN(b) THEN NaN ELSE a - b
JsAbs(x) == IF x < 0 THEN 0 - x ELSE x

\* Math.round(x / k) for an integer x and k > 0: ties go up.
RoundDiv(x, k) == IF IsNaN(x) THEN NaN ELSE (2 * x + k) \div (2 * k)

\* (x / k).toFixed(2) in hundredths: the nearest hundredth, ties away from 0.
Fixed2Div(x, k) ==
    IF IsNaN(x) THEN NaN
    ELSE IF x < 0 THEN 0 - ((200 * (0 - x) + k) \div (2 * k))
    ELSE (200 * x + k) \div (2 * k)

\* The timestamps of the extracts used here, and what Date makes of them.
T0110 == "2023-01-10 10:00:00"
T0800 == "2023-01-15 08:00:00"
T0900 == "2023-01-15 09:00:00"
T0930 == "2023-01-15 09:30:00"
T1000 == "2023-01-15 10:00:00"
T1005 == "2023-01-15 10:05:00"
T100520 == "2023-01-15 10:05:20"
T100530 == "2023-01-15 10:05:30"
T1010 == "2023-01-15 10:10:00"
T1030 == "2023-01-15 10:30:00"
T1100 == "2023-01-15 11:00:00"
T1230 == "2023-01-15 12:30:00"
TBad  == "15/01/2023 10am"

DateSeconds(ts) ==
    CASE ts = T0110 -> 0 - 5 * 86400 + 10 * 3600
      [] ts = T0800 -> 8 * 3600
      [] ts = T0900 -> 9 * 3600
      [] ts = T0930 -> 9 * 3600 + 30 * 60
      [] ts = T1000 -> 10 * 3600
      [] ts = T1005 -> 10 * 3600 + 5 * 60
      [] ts = T100520 -> 10 * 3600 + 5 * 60 + 20
      [] ts = T100530 -> 10 * 3600 + 5 * 60 + 30
      [] ts = T1010 -> 10 * 3600 + 10 * 60
      [] ts = T1030 -> 10 * 3600 + 30 * 60
      [] ts = T1100 -> 11 * 3600
      [] ts = T1230 -> 12 * 3600 + 30 * 60
      [] OTHER -> NaN

\* parseInt(v, 10) of the seat-capacity cells used here.
ParseInt(v) ==
    CASE v = "0" -> 0
      [] v = "1" -> 1
      [] v = "2" -> 2
      [] v = "5" -> 5
      [] OTHER -> NaN

\* v?.trim().toLowerCase() === 'true'
TrimLower(v) ==
    CASE v \in {"true", "TRUE", " True ", "true "} -> "true"
      [] v \in {"false", "FALSE", " false"} -> "false"
      [] v = "yes" -> "yes"
      [] OTHER -> ""

parseBoolean(v) == v # Undefined /\ TrimLower(v) = "true"

timestampDiff(a, b) ==
    IF Falsy(a) \/ Falsy(b) THEN 0
    ELSE JsSub(DateSeconds(b), DateSeconds(a))

MIN == -3600

clampTardiness(raw, d) ==
    IF JsLt(raw, MIN) THEN MIN
    ELSE IF JsGt(raw, d) THEN d
    ELSE raw

\* [...new Set(arr)]: first occurrences, in order.
unique(arr) ==
    LET F[i \in 0..Len(arr)] ==
          IF i = 0 THEN <<>>
          ELSE IF \E j \in 1..(i - 1) : arr[j] = arr[i] THEN F[i - 1]
          ELSE Append(F[i - 1], arr[i])
    IN F[Len(arr)]

\* Array.prototype.filter, as the ascending indices i with keep[i] true.
IndicesWhere(keep) ==
    LET F[i \in 0..Len(keep)] ==
          IF i = 0 THEN <<>>
          ELSE IF keep[i] THEN Append(F[i - 1], i) ELSE F[i - 1]
    IN F[Len(keep)]

Range(s) == {s[i] : i \in 1..Len(s)}

\* the concatenation of a sequence of sequences
RECURSIVE Concat(_)
Concat(ss) == IF ss = <<>> THEN <<>> ELSE Head(ss) \o Concat(Tail(ss))

-----------------------------------------------------------------------------
(* 2. processData *)

\* x || '' for a cell
OrEmpty(x) == IF Falsy(x) THEN "" ELSE x

\* an interval field: '' when the timestamp `from` is missing, otherwise
\* (timestampDiff(from, scheduledStart) / 3600).toFixed(2)
Blank == <<>>
intervalHours(from, scheduledStart) ==
    IF Falsy(from) THEN Blank
    ELSE <<Fixed2Div(timestampDiff(from, scheduledStart), 3600)>>

\* the teacher marker of a participant row (column 9)
isTeacherRow(p) == p.isTeacher # Undefined /\ TrimLower(p.isTeacher) = "true"

\* participantsData.filter((p) => p[2] === slug), as row numbers
participantsRows(participantsData, slug) ==
    IndicesWhere([i \in 1..Len(participantsData) |-> participantsData[i].slug = slug])

\* participantsRows.filter((p) => !teacher marker), as row numbers
enrolledMutDup(participantsData, rows) == rows
enrolled(participantsData, rows) ==
    LET keep == IndicesWhere([k \in 1..Len(rows) |->
                                 ~isTeacherRow(participantsData[rows[k]])])
    IN [k \in 1..Len(keep) |-> rows[keep[k]]]

\* participantsRows.find((p) => teacher marker): <<>> or <<row number>>
teacherRow(participantsData, rows) ==
    LET hit == IndicesWhere([k \in 1..Len(rows) |->
                                isTeacherRow(participantsData[rows[k]])])
    IN IF hit = <<>> THEN <<>> ELSE <<rows[hit[1]]>>

\* one student object; `row` records which extract row it was mapped from
studentOf(pr, row, scheduledStart, scheduledDuration) ==
    [ username          |-> pr.username,
      attended          |-> parseBoolean(pr.attended),
      tardiness         |-> clampTardiness(timestampDiff(pr.schedJoin, pr.actualJoin),
                                           scheduledDuration),
      cancelled         |-> parseBoolean(pr.cancelled),
      cancelledBy       |-> OrEmpty(pr.cancelledBy),
      cancelledTime     |-> pr.cancelledTime,
      cancelledInterval |-> intervalHours(pr.cancelledTime, scheduledStart),
      enrolledTime      |-> pr.enrolledAt,
      enrolmentInterval |-> intervalHours(pr.enrolledAt, scheduledStart),
      rating            |-> pr.rating,
      feedback          |-> pr.feedback,
      row               |-> row ]

teacherOf(pr, row, scheduledDuration) ==
    [ username  |-> pr.username,
      attended  |-> parseBoolean(pr.attended),
      tardiness |-> clampTardiness(timestampDiff(pr.schedJoin, pr.actualJoin),
                                   scheduledDuration),
      cancelled |-> parseBoolean(pr.cancelled),
      row       |-> row ]

\* cls.teacher.username / .attended / .cancelled / .tardiness; cls.teacher is
\* {} when no teacher row was found, so each is undefined then
teacherUsername(cls) == IF cls.teacher = <<>> THEN Undefined ELSE cls.teacher[1].username
teacherAttendedOf(cls) == cls.teacher # <<>> /\ cls.teacher[1].attended
teacherCancelledOf(cls) == cls.teacher # <<>> /\ cls.teacher[1].cancelled
teacherTardinessOf(cls) == IF cls.teacher = <<>> THEN NaN ELSE cls.teacher[1].tardiness

\* step 5: the three attribution flags and the session interval
cancellationOf(cancelledBy, cancelledTime, scheduledStart, teacherName, studentNames) ==
    IF Falsy(cancelledBy)
    THEN [ byStudent |-> FALSE, byTeacher |-> FALSE, byAdmin |-> FALSE,
           interval |-> Blank ]
    ELSE LET byStudent == \E k \in 1..Len(studentNames) : studentNames[k] = cancelledBy
             byTeacher == cancelledBy = teacherName
         IN [ byStudent |-> byStudent,
              byTeacher |-> byTeacher,
              byAdmin   |-> ~byStudent /\ ~byTeacher,
              interval  |-> intervalHours(cancelledTime, scheduledStart) ]

\* the class object built from one class row
classOf(cs, participantsData) ==
    LET scheduledStart == cs.start
        scheduledDuration == timestampDiff(cs.start, cs.end)
        cancelledBy == OrEmpty(cs.cancelledBy)
        cancelledTime == OrEmpty(cs.cancelledTime)
        rows == participantsRows(participantsData, cs.slug)
        enr == enrolled(participantsData, rows)
        students == [k \in 1..Len(enr) |->
                        studentOf(participantsData[enr[k]], enr[k],
                                  scheduledStart, scheduledDuration)]
        tRow == teacherRow(participantsData, rows)
        teacher == IF tRow = <<>> THEN <<>>
                   ELSE <<teacherOf(participantsData[tRow[1]], tRow[1], scheduledDuration)>>
        teacherName == IF teacher = <<>> THEN Undefined ELSE teacher[1].username
        studentNames == [k \in 1..Len(students) |-> students[k].username]
        c == cancellationOf(cancelledBy, cancelledTime, scheduledStart,
                            teacherName, studentNames)
    IN [ slug               |-> cs.slug,
         scheduledStart     |-> scheduledStart,
         scheduledDuration  |-> scheduledDuration,
         description        |-> OrEmpty(cs.description),
         subject            |-> OrEmpty(cs.subject),
         level              |-> OrEmpty(cs.level),
         company            |-> cs.company,
         course_id          |-> cs.course_id,
         available_seats    |-> ParseInt(cs.seats),
         cancelledBy        |-> cancelledBy,
         cancelledTime      |-> cancelledTime,
         cancelledByStudent |-> c.byStudent,
         cancelledByTeacher |-> c.byTeacher,
         cancelledByAdmin   |-> c.byAdmin,
         cancelledInterval  |-> c.interval,
         teacher            |-> teacher,
         students           |-> students ]

\* output[slug] = cls: a new key goes last, an existing key keeps its place
putClassMutKeep(output, cls) ==
    IF \E k \in 1..Len(output) : output[k].slug = cls.slug THEN output
    ELSE Append(output, cls)
putClass(output, cls) ==
    IF \E k \in 1..Len(output) : output[k].slug = cls.slug
    THEN [k \in 1..Len(output) |-> IF output[k].slug = cls.slug THEN cls ELSE output[k]]
    ELSE Append(output, cls)

processData(classesData, participantsData) ==
    LET F[i \in 0..Len(classesData)] ==
          IF i = 0 THEN <<>>
          ELSE IF Falsy(classesData[i].slug) THEN F[i - 1]
          ELSE putClass(F[i - 1], classOf(classesData[i], participantsData))
    IN F[Len(classesData)]

\* Math.round(cls.scheduledDuration / 60)
durationMinOf(cls) == RoundDiv(cls.scheduledDuration, 60)

-----------------------------------------------------------------------------
(* 3.1 buildTeacherHourCountCSV                                            *)
(*                                                                         *)
(* settings.studentNoShowRate is kept in tenths of a percent, a netCount   *)
(* and the totals in hundredths of a class.  A header cell is a record     *)
(* (duration, type, column name, window) instead of the formatted string.  *)

\* ascending numeric sort of a set of durations: Array.from(set).sort((a, b) => a - b)
SortAsc(S) ==
    LET F[T \in SUBSET S] ==
          IF T = {} THEN <<>>
          ELSE LET m == CHOOSE x \in T : \A y \in T : x <= y
               IN <<m>> \o F[T \ {m}]
    IN F[S]

\* cls.available_seats === 1 ? 'private' : 'group'
classTypeOf(cls) == IF cls.available_seats = 1 THEN "private" ELSE "group"

\* the two early returns of the aggregation loop: no teacher name, or a type
\* the filter excludes
aggregated(cls, settings) ==
    /\ ~Falsy(teacherUsername(cls))
    /\ (settings.classTypeFilter = "both" \/ settings.classTypeFilter = classTypeOf(cls))

\* the test of one student in step 1a
lateCancellation(cls, student, settings) ==
    /\ student.cancelled
    /\ student.cancelledBy # teacherUsername(cls)
    /\ JsLt(timestampDiff(cls.scheduledStart, student.cancelledTime),
            3600 * settings.cancellationWindow)

\* step 1a: what one class adds to bucket.cancelled.  The `return` inside the
\* forEach callback ends that callback only, so every student is tested.
cancelledCreditOf(cls, settings) ==
    IF classTypeOf(cls) = "private" /\ settings.payLastMinuteCancellation
    THEN LET F[j \in 0..Len(cls.students)] ==
               IF j = 0 THEN 0
               ELSE F[j - 1] + (IF lateCancellation(cls, cls.students[j], settings)
                                THEN 1 ELSE 0)
         IN F[Len(cls.students)]
    ELSE 0

\* step 1b: bucket.late++
teacherLate(cls, settings) ==
    /\ teacherAttendedOf(cls)
    /\ settings.penaliseTardiness
    /\ JsGt(RoundDiv(teacherTardinessOf(cls), 60), settings.tardinessLimit)

\* step 1c: bucket.studentNoShow++
studentNoShowCase(cls) ==
    /\ teacherAttendedOf(cls)
    /\ ~teacherCancelledOf(cls)
    /\ Len(cls.students) > 0
    /\ \A j \in 1..Len(cls.students) : ~cls.students[j].attended

\* Object.keys(teacherReports): the teachers of the aggregated classes, first seen first
teachersOf(processedData, settings) ==
    LET agg == IndicesWhere([k \in 1..Len(processedData) |->
                                aggregated(processedData[k], settings)])
    IN unique([k \in 1..Len(agg) |-> teacherUsername(processedData[agg[k]])])

\* the counters of teacherReports[teacher].durations[d][type] after the loop
\* (all 0 where pushType falls back to its default bucket)
bucketOf(processedData, settings, teacher, d, type) ==
    LET mine == IndicesWhere([k \in 1..Len(processedData) |->
                    /\ aggregated(processedData[k], settings)
                    /\ teacherUsername(processedData[k]) = teacher
                    /\ durationMinOf(processedData[k]) = d
                    /\ classTypeOf(processedData[k]) = type])
        cls(k) == processedData[mine[k]]
        count[k \in 0..Len(mine)] ==
          IF k = 0
          THEN [attended |-> 0, noShow |-> 0, cancelled |-> 0, late |-> 0,
                studentNoShow |-> 0]
          ELSE [ attended |-> count[k - 1].attended
                                + (IF teacherAttendedOf(cls(k)) THEN 1 ELSE 0),
                 noShow |-> count[k - 1].noShow
                                + (IF teacherAttendedOf(cls(k)) THEN 0 ELSE 1),
                 cancelled |-> count[k - 1].cancelled + cancelledCreditOf(cls(k), settings),
                 late |-> count[k - 1].late
                                + (IF teacherLate(cls(k), settings) THEN 1 ELSE 0),
                 studentNoShow |-> count[k - 1].studentNoShow
                                + (IF studentNoShowCase(cls(k)) THEN 1 ELSE 0) ]
    IN count[Len(mine)]

\* payStudentNoShow ? studentNoShowRate / 100 : 0, in thousandths
studentNoShowFrac(settings) ==
    IF settings.payStudentNoShow THEN settings.studentNoShowRate ELSE 0

\* parseFloat((baseCount - deduction).toFixed(2)), in hundredths
netCountMutFrac(bucket, type, settings) ==
    Fixed2Div(1000 * (bucket.attended
                      - (IF settings.penaliseTardiness THEN bucket.late ELSE 0)
                      + (IF type = "private" /\ settings.payLastMinuteCancellation
                         THEN bucket.cancelled ELSE 0))
              - bucket.studentNoShow * studentNoShowFrac(settings), 1000)
netCountOf(bucket, type, settings) ==
    LET baseCount == bucket.attended
                     - (IF settings.penaliseTardiness THEN bucket.late ELSE 0)
                     + (IF type = "private" /\ settings.payLastMinuteCancellation
                        THEN bucket.cancelled ELSE 0)
        deduction == bucket.studentNoShow * (1000 - studentNoShowFrac(settings))
    IN Fixed2Div(1000 * baseCount - deduction, 1000)

HeaderCell(d, type, col, w) == [d |-> d, type |-> type, col |-> col, w |-> w]

\* makeCols(type)
makeCols(type, durations, settings, simpleReport) ==
    Concat([k \in 1..Len(durations) |->
        IF simpleReport
        THEN <<HeaderCell(durations[k], type, "classes count", 0)>>
        ELSE <<HeaderCell(durations[k], type, "classes attended", 0)>>
             \o (IF type = "private"
                 THEN <<HeaderCell(durations[k], type, "classes cancelled <",
                                   settings.cancellationWindow)>>
                 ELSE <<>>)
             \o <<HeaderCell(durations[k], type, "classes no show", 0),
                  HeaderCell(durations[k], type, "student no show", 0),
                  HeaderCell(durations[k], type, "classes late", 0),
                  HeaderCell(durations[k], type, "classes count", 0)>>])
    \o <<HeaderCell(0, type, "Total classes count", 0),
         HeaderCell(0, type, "Total minutes", 0)>>

\* the sum of f over 1..n
SumTo(n, f) ==
    LET F[i \in 0..n] == IF i = 0 THEN 0 ELSE F[i - 1] + f[i]
    IN F[n]

\* pushType(type) for one teacher: the cells it appends to the row
pushTypeMutTotals(processedData, settings, simpleReport, teacher, type, durations) ==
    LET b == [k \in 1..Len(durations) |->
                 bucketOf(processedData, settings, teacher, durations[k], type)]
        net == [k \in 1..Len(durations) |-> netCountOf(b[k], type, settings)]
    IN Concat([k \in 1..Len(durations) |->
            IF simpleReport
            THEN <<net[k]>>
            ELSE <<b[k].attended>>
                 \o (IF type = "private" THEN <<b[k].cancelled>> ELSE <<>>)
                 \o <<b[k].noShow, b[k].studentNoShow, b[k].late, net[k]>>])
       \o << SumTo(Len(durations), net),
             60 * SumTo(Len(durations), net) >>
pushType(processedData, settings, simpleReport, teacher, type, durations) ==
    LET b == [k \in 1..Len(durations) |->
                 bucketOf(processedData, settings, teacher, durations[k], type)]
        net == [k \in 1..Len(durations) |-> netCountOf(b[k], type, settings)]
    IN Concat([k \in 1..Len(durations) |->
            IF simpleReport
            THEN <<net[k]>>
            ELSE <<b[k].attended>>
                 \o (IF type = "private" THEN <<b[k].cancelled>> ELSE <<>>)
                 \o <<b[k].noShow, b[k].studentNoShow, b[k].late, net[k]>>])
       \o << SumTo(Len(durations), net),
             SumTo(Len(durations), [k \in 1..Len(durations) |-> net[k] * durations[k]]) >>

typesOf(settings) ==
    IF settings.classTypeFilter = "both" THEN <<"private", "group">>
    ELSE <<settings.classTypeFilter>>

buildTeacherHourCountCSV(processedData, settings, simpleReport) ==
    LET durations == SortAsc({durationMinOf(processedData[k]) : k \in 1..Len(processedData)})
        types == typesOf(settings)
        teachers == teachersOf(processedData, settings)
    IN [ header |-> <<HeaderCell(0, "", "teacher", 0)>>
                    \o Concat([t \in 1..Len(types) |->
                                  makeCols(types[t], durations, settings, simpleReport)]),
         rows |-> [r \in 1..Len(teachers) |->
                     [ teacher |-> teachers[r],
                       cells |-> Concat([t \in 1..Len(types) |->
                                    pushType(processedData, settings, simpleReport,
                                             teachers[r], types[t], durations)]) ]] ]

\* The older copy of the builder (src/unnamed/part_000).  Its step 1a reads
\* s['cancelled by'] and s['cancelled time'], which no student object has
\* (processData names them cancelledBy and cancelledTime), so both are
\* undefined; it leaves the loop at the first qualifying student.
lateCancellation_part000(cls, student, settings) ==
    /\ student.cancelled
    /\ Undefined # teacherUsername(cls)
    /\ JsLt(timestampDiff(cls.scheduledStart, Undefined),
            3600 * settings.cancellationWindow)

cancelledCreditOf_part000(cls, settings) ==
    IF /\ classTypeOf(cls) = "private" /\ settings.payLastMinuteCancellation
       /\ \E j \in 1..Len(cls.students) :
             lateCancellation_part000(cls, cls.students[j], settings)
    THEN 1 ELSE 0

bucketOf_part000(processedData, settings, teacher, d, type) ==
    LET mine == IndicesWhere([k \in 1..Len(processedData) |->
                    /\ aggregated(processedData[k], settings)
                    /\ teacherUsername(processedData[k]) = teacher
                    /\ durationMinOf(processedData[k]) = d
                    /\ classTypeOf(processedData[k]) = type])
        cls(k) == processedData[mine[k]]
        count[k \in 0..Len(mine)] ==
          IF k = 0
          THEN [attended |-> 0, noShow |-> 0, cancelled |-> 0, late |-> 0,
                studentNoShow |-> 0]
          ELSE [ attended |-> count[k - 1].attended
                                + (IF teacherAttendedOf(cls(k)) THEN 1 ELSE 0),
                 noShow |-> count[k - 1].noShow
                                + (IF teacherAttendedOf(cls(k)) THEN 0 ELSE 1),
                 cancelled |-> count[k - 1].cancelled
                                + cancelledCreditOf_part000(cls(k), settings),
                 late |-> count[k - 1].late
                                + (IF teacherLate(cls(k), settings) THEN 1 ELSE 0),
                 studentNoShow |-> count[k - 1].studentNoShow
                                + (IF studentNoShowCase(cls(k)) THEN 1 ELSE 0) ]
    IN count[Len(mine)]

pushType_part000(processedData, settings, simpleReport, teacher, type, durations) ==
    LET b == [k \in 1..Len(durations) |->
                 bucketOf_part000(processedData, settings, teacher, durations[k], type)]
        net == [k \in 1..Len(durations) |-> netCountOf(b[k], type, settings)]
    IN Concat([k \in 1..Len(durations) |->
            IF simpleReport
            THEN <<net[k]>>
            ELSE <<b[k].attended>>
                 \o (IF type = "private" THEN <<b[k].cancelled>> ELSE <<>>)
                 \o <<b[k].noShow, b[k].studentNoShow, b[k].late, net[k]>>])
       \o << SumTo(Len(durations), net),
             SumTo(Len(durations), [k \in 1..Len(durations) |-> net[k] * durations[k]]) >>

buildTeacherHourCountCSV_part000(processedData, settings, simpleReport) ==
    LET durations == SortAsc({durationMinOf(processedData[k]) : k \in 1..Len(processedData)})
        types == typesOf(settings)
        teachers == teachersOf(processedData, settings)
    IN [ header |-> <<HeaderCell(0, "", "teacher", 0)>>
                    \o Concat([t \in 1..Len(types) |->
                                  makeCols(types[t], durations, settings, simpleReport)]),
         rows |-> [r \in 1..Len(teachers) |->
                     [ teacher |-> teachers[r],
                       cells |-> Concat([t \in 1..Len(types) |->
                                    pushType_part000(processedData, settings, simpleReport,
                                                     teachers[r], types[t], durations)]) ]] ]

\* generateHourCountBtn click: read the settings and the checked durations,
\* keep the classes of a checked duration, build both CSVs, show the output
selectedData(d, selectedDurations) ==
    SelectSeq(d, LAMBDA cls : durationMinOf(cls) \in selectedDurations)

-----------------------------------------------------------------------------
(* 5. buildOverviewData *)

\* the filter of tally(type)
talliedAs(cls, type) ==
    IF type = "private" THEN cls.available_seats = 1 ELSE JsGt(cls.available_seats, 1)

allStudentsAbsentMutVacuous(cls) ==
    \A j \in 1..Len(cls.students) : ~cls.students[j].attended
allStudentsAbsent(cls) ==
    Len(cls.students) > 0 /\ \A j \in 1..Len(cls.students) : ~cls.students[j].attended

\* how many classes of the sequence pass the test sequence
CountTrue(flags) == Len(IndicesWhere(flags))

\* tally(type): duration (minutes) -> counters
tally(processedData, cancellationWindow, type) ==
    LET in == IndicesWhere([k \in 1..Len(processedData) |->
                               talliedAs(processedData[k], type)])
        durs == {durationMinOf(processedData[in[k]]) : k \in 1..Len(in)}
        of(d) == SelectSeq([k \in 1..Len(in) |-> processedData[in[k]]],
                           LAMBDA cls : durationMinOf(cls) = d)
    IN [d \in durs |->
          LET c == of(d)
              att(k) == teacherAttendedOf(c[k])
              canc(k) == ~Falsy(c[k].cancelledBy)
          IN [ total |-> Len(c),
               completed |-> CountTrue([k \in 1..Len(c) |-> att(k) /\ ~canc(k)]),
               cancelled |-> CountTrue([k \in 1..Len(c) |-> canc(k)]),
               cancelledByStudent |->
                   CountTrue([k \in 1..Len(c) |-> canc(k) /\ c[k].cancelledByStudent]),
               cancelledByTeacher |->
                   CountTrue([k \in 1..Len(c) |-> canc(k) /\ c[k].cancelledByTeacher]),
               cancelledByAdmin |->
                   CountTrue([k \in 1..Len(c) |-> canc(k) /\ c[k].cancelledByAdmin]),
               studentCancelledLate |->
                   CountTrue([k \in 1..Len(c) |->
                       /\ canc(k)
                       /\ c[k].cancelledByStudent
                       /\ c[k].cancelledInterval # Blank
                       /\ JsLt(c[k].cancelledInterval[1], 100 * cancellationWindow)]),
               teacherNoShow |-> CountTrue([k \in 1..Len(c) |-> ~att(k) /\ ~canc(k)]),
               studentNoShow |->
                   CountTrue([k \in 1..Len(c) |->
                       IF type = "group" THEN allStudentsAbsent(c[k])
                       ELSE att(k) /\ allStudentsAbsent(c[k])]),
               bothNoShow |->
                   CountTrue([k \in 1..Len(c) |->
                       ~att(k) /\ ~canc(k) /\ allStudentsAbsent(c[k])]) ]]

buildOverviewData(processedData, cancellationWindow) ==
    [ groupData |-> tally(processedData, cancellationWindow, "group"),
      privateData |-> tally(processedData, cancellationWindow, "private") ]

-----------------------------------------------------------------------------
(* 3.3 Course reports                                                      *)
(*                                                                         *)
(* A row is a record of its cells.  A rate or seats cell is <<>> for the   *)
(* blank '' and <<n>> for a number; the per-student rate is kept in        *)
(* hundredths of a percent (toFixed(2) followed by '%').                   *)

\* cls.course_id || 'NO_ID'
courseKeyOf(cls) == IF Falsy(cls.course_id) THEN "NO_ID" ELSE cls.course_id

\* Array.prototype.sort((a, b) => new Date(a.scheduledStart) - new
\* Date(b.scheduledStart)): stable; a NaN comparison counts as 0
startsAfter(a, b) == JsGt(JsSub(DateSeconds(a.scheduledStart), DateSeconds(b.scheduledStart)), 0)

sortByStart(classes) ==
    LET insert(sorted, x) ==
          LET after == {i \in 1..Len(sorted) : startsAfter(sorted[i], x)}
              at == IF after = {} THEN Len(sorted) + 1
                    ELSE CHOOSE i \in after : \A j \in after : i <= j
          IN SubSeq(sorted, 1, at - 1) \o <<x>> \o SubSeq(sorted, at, Len(sorted))
        F[i \in 0..Len(classes)] ==
          IF i = 0 THEN <<>> ELSE insert(F[i - 1], classes[i])
    IN F[Len(classes)]

\* byCourse[courseId], sorted
classesOfCourse(processedData, courseId) ==
    sortByStart(SelectSeq(processedData, LAMBDA cls : courseKeyOf(cls) = courseId))

\* unique(classes.map((c) => c.teacher.username).filter(Boolean))
courseTeachers(classes) ==
    unique(SelectSeq([k \in 1..Len(classes) |-> teacherUsername(classes[k])],
                     LAMBDA u : ~Falsy(u)))

\* every student entry of the classes, class by class
participations(classes) ==
    Concat([k \in 1..Len(classes) |-> classes[k].students])

\* totalStudentParticipations ? Math.round((attendedCount / total) * 100) : ''
attendanceRateOfMutNoGuard(classes) ==
    LET all == participations(classes)
        attendedCount == Len(SelectSeq(all, LAMBDA s : s.attended))
    IN IF Len(all) = 0 THEN <<NaN>> ELSE <<RoundDiv(100 * attendedCount, Len(all))>>
attendanceRateOf(classes) ==
    LET all == participations(classes)
        attendedCount == Len(SelectSeq(all, LAMBDA s : s.attended))
    IN IF Len(all) = 0 THEN Blank ELSE <<RoundDiv(100 * attendedCount, Len(all))>>

\* `${firstClass.available_seats || ''}`
seatsCell(n) == IF n = 0 \/ IsNaN(n) THEN Blank ELSE <<n>>

\* the cells both course builders compute for one course.  The class object
\* has no 'course description' property (processData names it description),
\* so firstClass['course description'] is undefined.
courseInfoMutCountsEntries(courseId, classes) ==
    LET firstClass == classes[1] IN
    [ courseId    |-> courseId,
      teachers    |-> courseTeachers(classes),
      startDate   |-> classes[1].scheduledStart,
      endDate     |-> classes[Len(classes)].scheduledStart,
      level       |-> OrEmpty(firstClass.level),
      subject     |-> OrEmpty(firstClass.subject),
      description |-> OrEmpty(Undefined),
      classCount  |-> Len(classes),
      seats       |-> seatsCell(firstClass.available_seats),
      enrolled    |-> Len(participations(classes)),
      rate        |-> attendanceRateOf(classes) ]
courseInfo(courseId, classes) ==
    LET firstClass == classes[1] IN
    [ courseId    |-> courseId,
      teachers    |-> courseTeachers(classes),
      startDate   |-> classes[1].scheduledStart,
      endDate     |-> classes[Len(classes)].scheduledStart,
      level       |-> OrEmpty(firstClass.level),
      subject     |-> OrEmpty(firstClass.subject),
      description |-> OrEmpty(Undefined),
      classCount  |-> Len(classes),
      seats       |-> seatsCell(firstClass.available_seats),
      enrolled    |-> Len(unique([k \in 1..Len(participations(classes)) |->
                                     participations(classes)[k].username])),
      rate        |-> attendanceRateOf(classes) ]

\* one row per key of byCourse, in key insertion order
buildAllCoursesOverviewCSV(processedData) ==
    LET ids == unique([k \in 1..Len(processedData) |-> courseKeyOf(processedData[k])])
    IN [c \in 1..Len(ids) |-> courseInfo(ids[c], classesOfCourse(processedData, ids[c]))]

\* the status of a student in a class of the matrix
matrixCellMutAttendedFirst(cls, username) ==
    LET hit == SelectSeq(cls.students, LAMBDA s : s.username = username)
    IN IF hit = <<>> THEN ""
       ELSE IF hit[1].attended THEN "attended"
       ELSE IF hit[1].cancelled THEN "cancelled"
       ELSE "no show"
matrixCell(cls, username) ==
    LET hit == SelectSeq(cls.students, LAMBDA s : s.username = username)
    IN IF hit = <<>> THEN ""
       ELSE IF hit[1].cancelled THEN "cancelled"
       ELSE IF hit[1].attended THEN "attended"
       ELSE "no show"

\* buildCourseDetailReport: info is <<>> for the empty infoCsv
buildCourseDetailReport(processedData, courseId) ==
    LET classes == classesOfCourse(processedData, courseId)
        all == participations(classes)
        uniqueStudents == unique([k \in 1..Len(all) |-> all[k].username])
    IN IF classes = <<>>
       THEN [ info |-> <<>>, classList |-> <<>>, uniqueStudents |-> <<>> ]
       ELSE [ info |-> <<courseInfo(courseId, classes)>>,
              classList |-> [k \in 1..Len(classes) |->
                  [ slug |-> classes[k].slug,
                    status |-> IF Falsy(classes[k].cancelledBy) THEN "completed"
                               ELSE "cancelled",
                    cells |-> [u \in 1..Len(uniqueStudents) |->
                                  matrixCell(classes[k], uniqueStudents[u])] ]],
              uniqueStudents |-> uniqueStudents ]

\* buildCourseStudentOverviewCSV: one row per key of stats
buildCourseStudentOverviewCSV(processedData, courseId) ==
    LET classes == SelectSeq(processedData, LAMBDA cls : courseKeyOf(cls) = courseId)
        all == participations(classes)
        users == unique([k \in 1..Len(all) |-> all[k].username])
    IN [u \in 1..Len(users) |->
          LET mine == SelectSeq(all, LAMBDA s : s.username = users[u])
              attended == Len(SelectSeq(mine, LAMBDA s : s.attended))
              cancelled == Len(SelectSeq(mine, LAMBDA s : ~s.attended /\ s.cancelled))
          IN [ username  |-> users[u],
               enrolled  |-> Len(mine),
               attended  |-> attended,
               noShow    |-> Len(mine) - attended - cancelled,
               cancelled |-> cancelled,
               rate      |-> Fixed2Div(100 * attended, Len(mine)) ]]

-----------------------------------------------------------------------------
(* 3.4 buildStudentReport                                                  *)
(*                                                                         *)
(* A rate or an average is <<>> for the blank '' and <<h>> for the         *)
(* hundredths that toFixed(2) prints.  Times are in seconds.               *)

\* parseFloat of the rating cells used here
ParseFloat(v) ==
    CASE v = "3" -> 3
      [] v = "4" -> 4
      [] v \in {"5", " 5 "} -> 5
      [] OTHER -> NaN

\* the sum of a sequence of numbers, NaN when one of them is NaN
JsSum(xs) ==
    IF \E i \in 1..Len(xs) : IsNaN(xs[i]) THEN NaN
    ELSE SumTo(Len(xs), xs)

\* xs.length ? (sum / (xs.length * unit)).toFixed(2) : ''
averageOf(xs, unit) ==
    IF xs = <<>> THEN Blank ELSE <<Fixed2Div(JsSum(xs), unit * Len(xs))>>

\* the class-level filter of buildStudentReport
classIncludedMutNoFilter(cls, options) == TRUE
classIncluded(cls, options) ==
    ~(options.filterMode = "company" /\ options.companyId # "ALL"
        /\ cls.company # options.companyId)

\* the student-level filter
studentIncluded(student, options) ==
    /\ ~Falsy(student.username)
    /\ ~(options.filterMode = "custom" /\ student.username \notin options.customList)

\* the participations the loop accumulates, in its order: per class of the
\* model, per student of the class
includedParticipations(processedData, options) ==
    Concat([k \in 1..Len(processedData) |->
        IF classIncluded(processedData[k], options)
        THEN [j \in 1..Len(SelectSeq(processedData[k].students,
                                     LAMBDA s : studentIncluded(s, options))) |->
                 [ cls |-> processedData[k],
                   student |-> SelectSeq(processedData[k].students,
                                         LAMBDA s : studentIncluded(s, options))[j] ]]
        ELSE <<>>])

\* (scheduledStartD - new Date(ts)) in seconds
secondsBefore(cls, ts) == JsSub(DateSeconds(cls.scheduledStart), DateSeconds(ts))

\* what a participation pushes to s.enrolmentIntervals
enrolmentPushMutZero(p) ==
    IF Falsy(p.student.enrolledTime) THEN <<0>>
    ELSE <<secondsBefore(p.cls, p.student.enrolledTime)>>
enrolmentPush(p) ==
    IF Falsy(p.student.enrolledTime) THEN <<>>
    ELSE <<secondsBefore(p.cls, p.student.enrolledTime)>>

\* what a participation pushes to s.cancellationIntervals
cancellationPush(p) ==
    IF p.student.cancelled /\ ~Falsy(p.student.cancelledTime)
    THEN <<secondsBefore(p.cls, p.student.cancelledTime)>>
    ELSE <<>>

\* the average of the differences of consecutive class dates, sorted
averageClassInterval(dates) ==
    IF Len(dates) > 1
    THEN IF \E i \in 1..Len(dates) : IsNaN(dates[i]) THEN <<NaN>>
         ELSE LET hi == CHOOSE x \in Range(dates) : \A y \in Range(dates) : y <= x
                  lo == CHOOSE x \in Range(dates) : \A y \in Range(dates) : x <= y
              IN <<Fixed2Div(hi - lo, 3600 * (Len(dates) - 1))>>
    ELSE Blank

\* the row of one student, from the participations accumulated for it
studentRowMutNoShowOfCancelled(mine, options) ==
    LET n(test(_)) == Len(SelectSeq(mine, test))
        totalPrivate == n(LAMBDA p : p.cls.available_seats = 1)
        totalGroup == Len(mine) - totalPrivate
        totalClasses == totalGroup + totalPrivate
        cancelled == n(LAMBDA p : p.student.cancelled)
        attended == n(LAMBDA p : ~p.student.cancelled /\ p.student.attended)
        noShow == n(LAMBDA p : ~p.student.attended)
        cancelledLate ==
            n(LAMBDA p : /\ p.student.cancelled
                         /\ ~Falsy(p.student.cancelledTime)
                         /\ JsLt(secondsBefore(p.cls, p.student.cancelledTime),
                                 3600 * options.cancellationWindow))
        rate(x) == IF totalClasses = 0 THEN Blank ELSE <<Fixed2Div(x, totalClasses)>>
        ratings == SelectSeq([i \in 1..Len(mine) |-> ParseFloat(mine[i].student.rating)],
                             LAMBDA r : ~IsNaN(r))
    IN [ username       |-> mine[1].student.username,
         company        |-> mine[1].cls.company,
         totalGroup     |-> totalGroup,
         totalPrivate   |-> totalPrivate,
         attended       |-> attended,
         noShow         |-> noShow,
         cancelled      |-> cancelled,
         cancelledLate  |-> cancelledLate,
         attRate        |-> rate(attended),
         noShowRate     |-> rate(noShow),
         cancelRate     |-> rate(cancelled),
         lateCancelRate |-> rate(cancelledLate),
         avgCancelInt   |-> averageOf(Concat([i \in 1..Len(mine) |-> cancellationPush(mine[i])]), 3600),
         avgTard        |-> averageOf([i \in 1..Len(mine) |-> mine[i].student.tardiness], 60),
         avgRating      |-> averageOf(ratings, 1),
         avgEnrol       |-> averageOf(Concat([i \in 1..Len(mine) |-> enrolmentPush(mine[i])]), 3600),
         avgClassInt    |-> averageClassInterval(
                                [i \in 1..Len(mine) |-> DateSeconds(mine[i].cls.scheduledStart)]) ]
studentRow(mine, options) ==
    LET n(test(_)) == Len(SelectSeq(mine, test))
        totalPrivate == n(LAMBDA p : p.cls.available_seats = 1)
        totalGroup == Len(mine) - totalPrivate
        totalClasses == totalGroup + totalPrivate
        cancelled == n(LAMBDA p : p.student.cancelled)
        attended == n(LAMBDA p : ~p.student.cancelled /\ p.student.attended)
        noShow == n(LAMBDA p : ~p.student.cancelled /\ ~p.student.attended)
        cancelledLate ==
            n(LAMBDA p : /\ p.student.cancelled
                         /\ ~Falsy(p.student.cancelledTime)
                         /\ JsLt(secondsBefore(p.cls, p.student.cancelledTime),
                                 3600 * options.cancellationWindow))
        rate(x) == IF totalClasses = 0 THEN Blank ELSE <<Fixed2Div(x, totalClasses)>>
        ratings == SelectSeq([i \in 1..Len(mine) |-> ParseFloat(mine[i].student.rating)],
                             LAMBDA r : ~IsNaN(r))
    IN [ username       |-> mine[1].student.username,
         company        |-> mine[1].cls.company,
         totalGroup     |-> totalGroup,
         totalPrivate   |-> totalPrivate,
         attended       |-> attended,
         noShow         |-> noShow,
         cancelled      |-> cancelled,
         cancelledLate  |-> cancelledLate,
         attRate        |-> rate(attended),
         noShowRate     |-> rate(noShow),
         cancelRate     |-> rate(cancelled),
         lateCancelRate |-> rate(cancelledLate),
         avgCancelInt   |-> averageOf(Concat([i \in 1..Len(mine) |-> cancellationPush(mine[i])]), 3600),
         avgTard        |-> averageOf([i \in 1..Len(mine) |-> mine[i].student.tardiness], 60),
         avgRating      |-> averageOf(ratings, 1),
         avgEnrol       |-> averageOf(Concat([i \in 1..Len(mine) |-> enrolmentPush(mine[i])]), 3600),
         avgClassInt    |-> averageClassInterval(
                                [i \in 1..Len(mine) |-> DateSeconds(mine[i].cls.scheduledStart)]) ]

\* one row per key of students, in key insertion order
buildStudentReport(processedData, options) ==
    LET all == includedParticipations(processedData, options)
        users == unique([i \in 1..Len(all) |-> all[i].student.username])
    IN [u \in 1..Len(users) |->
          studentRow(SelectSeq(all, LAMBDA p : p.student.username = users[u]), options)]

-----------------------------------------------------------------------------
(* 3.2 Teacher reports                                                     *)
(*                                                                         *)
(* An average or a rate cell is the number of hundredths that toFixed(2)   *)
(* prints.                                                                 *)

\* String.prototype.trim of the feedback and rating cells used here
Trim(v) ==
    CASE v = " " -> ""
      [] v = " 5 " -> "5"
      [] OTHER -> v

\* count ? (sum / (count * unit)).toFixed(2) : '0.00'
averageOrZero(xs, unit) ==
    IF xs = <<>> THEN 0 ELSE Fixed2Div(JsSum(xs), unit * Len(xs))

\* every student entry of the classes with its parsed rating
ratingsOf(students) ==
    SelectSeq([i \in 1..Len(students) |-> ParseFloat(students[i].rating)],
              LAMBDA r : ~IsNaN(r))

\* (st.feedback && st.feedback.trim()) || !isNaN(r)
hasFB(st) ==
    (~Falsy(st.feedback) /\ Trim(st.feedback) # "") \/ ~IsNaN(ParseFloat(st.rating))

\* the cells of both teacher reports that are computed the same way
teacherAverages(mine) ==
    LET students == participations(mine) IN
    [ avgTardT  |-> averageOrZero([k \in 1..Len(mine) |-> teacherTardinessOf(mine[k])], 60),
      avgTardS  |-> averageOrZero([i \in 1..Len(students) |-> students[i].tardiness], 60),
      avgRating |-> averageOrZero(ratingsOf(students), 1),
      fbRate    |-> IF Len(mine) = 0 THEN 0
                    ELSE Fixed2Div(100 * Len(SelectSeq(students, hasFB)), Len(mine)) ]

\* the classes a teacher report keeps: of its type, with a teacher name
teachersIn(classes) ==
    unique([k \in 1..Len(classes) |-> teacherUsername(classes[k])])

\* buildTeacherPrivateClassesCSV: one row per key of stats
buildTeacherPrivateClassesCSVMutAnyAbsence(processedData) ==
    LET kept == SelectSeq(processedData,
                    LAMBDA cls : cls.available_seats = 1 /\ ~Falsy(teacherUsername(cls)))
        names == teachersIn(kept)
    IN [t \in 1..Len(names) |->
          LET mine == SelectSeq(kept, LAMBDA cls : teacherUsername(cls) = names[t])
              n(test(_)) == Len(SelectSeq(mine, test))
              remaining(cls) == Falsy(cls.cancelledBy)
              allAbsent(cls) == \A j \in 1..Len(cls.students) : ~cls.students[j].attended
          IN [ teacher            |-> names[t],
               totalBooked        |-> Len(mine),
               cancelledByTeacher |-> n(LAMBDA cls : cls.cancelledByTeacher),
               cancelledByAdmin   |-> n(LAMBDA cls : /\ ~cls.cancelledByTeacher
                                                     /\ ~cls.cancelledByStudent
                                                     /\ cls.cancelledByAdmin),
               cancelledByStudent |-> n(LAMBDA cls : /\ ~cls.cancelledByTeacher
                                                     /\ cls.cancelledByStudent),
               totalRemaining     |-> n(remaining),
               teacherNoShows     |-> n(LAMBDA cls : remaining(cls) /\ ~teacherAttendedOf(cls)),
               studentNoShows     |-> n(LAMBDA cls : remaining(cls) /\ allAbsent(cls)),
               averages           |-> teacherAverages(mine) ]]
buildTeacherPrivateClassesCSV(processedData) ==
    LET kept == SelectSeq(processedData,
                    LAMBDA cls : cls.available_seats = 1 /\ ~Falsy(teacherUsername(cls)))
        names == teachersIn(kept)
    IN [t \in 1..Len(names) |->
          LET mine == SelectSeq(kept, LAMBDA cls : teacherUsername(cls) = names[t])
              n(test(_)) == Len(SelectSeq(mine, test))
              remaining(cls) == Falsy(cls.cancelledBy)
              allAbsent(cls) == \A j \in 1..Len(cls.students) : ~cls.students[j].attended
          IN [ teacher            |-> names[t],
               totalBooked        |-> Len(mine),
               cancelledByTeacher |-> n(LAMBDA cls : cls.cancelledByTeacher),
               cancelledByAdmin   |-> n(LAMBDA cls : /\ ~cls.cancelledByTeacher
                                                     /\ ~cls.cancelledByStudent
                                                     /\ cls.cancelledByAdmin),
               cancelledByStudent |-> n(LAMBDA cls : /\ ~cls.cancelledByTeacher
                                                     /\ cls.cancelledByStudent),
               totalRemaining     |-> n(remaining),
               teacherNoShows     |-> n(LAMBDA cls : remaining(cls) /\ ~teacherAttendedOf(cls)),
               studentNoShows     |-> n(LAMBDA cls : /\ remaining(cls)
                                                     /\ teacherAttendedOf(cls)
                                                     /\ allAbsent(cls)),
               averages           |-> teacherAverages(mine) ]]

\* buildTeacherGroupClassesCSV: one row per key of stats
buildTeacherGroupClassesCSV(processedData) ==
    LET kept == SelectSeq(processedData,
                    LAMBDA cls : /\ ~(~IsNaN(cls.available_seats) /\ cls.available_seats <= 1)
                                 /\ ~Falsy(teacherUsername(cls)))
        names == teachersIn(kept)
    IN [t \in 1..Len(names) |->
          LET mine == SelectSeq(kept, LAMBDA cls : teacherUsername(cls) = names[t])
              n(test(_)) == Len(SelectSeq(mine, test))
              remaining(cls) == Falsy(cls.cancelledBy)
              noShows(cls) == SelectSeq(cls.students, LAMBDA st : ~st.attended /\ ~st.cancelled)
          IN [ teacher            |-> names[t],
               totalBooked        |-> Len(mine),
               cancelledByTeacher |-> n(LAMBDA cls : cls.cancelledByTeacher),
               cancelledByAdmin   |-> n(LAMBDA cls : ~cls.cancelledByTeacher /\ cls.cancelledByAdmin),
               totalRemaining     |-> n(remaining),
               teacherNoShows     |-> n(LAMBDA cls : remaining(cls) /\ ~teacherAttendedOf(cls)),
               classStudentNoShowClasses |->
                                      n(LAMBDA cls : remaining(cls) /\ noShows(cls) # <<>>),
               classStudentNoShowTotal |->
                   SumTo(Len(mine), [k \in 1..Len(mine) |-> Len(noShows(mine[k]))]),
               averages           |-> teacherAverages(mine) ]]

\* the students of a class that buildTeacherFeedbackCSV lists
withFeedback(cls) ==
    SelectSeq(cls.students,
              LAMBDA st : Trim(OrEmpty(st.feedback)) # "" \/ Trim(OrEmpty(st.rating)) # "")

\* buildTeacherFeedbackCSV: classes without a teacher name are skipped.  The
\* slug and the extract row of the student say which pair a row was pushed
\* for; they are not cells.
feedbackRowsOfMutAnyClass(cls) ==
    [j \in 1..Len(withFeedback(cls)) |->
        [ teacher   |-> teacherUsername(cls),
          student   |-> withFeedback(cls)[j].username,
          classDate |-> cls.scheduledStart,
          feedback  |-> Trim(OrEmpty(withFeedback(cls)[j].feedback)),
          rating    |-> Trim(OrEmpty(withFeedback(cls)[j].rating)),
          slug      |-> cls.slug,
          row       |-> withFeedback(cls)[j].row ]]
feedbackRowsOf(cls) ==
    IF Falsy(teacherUsername(cls)) THEN <<>>
    ELSE [j \in 1..Len(withFeedback(cls)) |->
            [ teacher   |-> teacherUsername(cls),
              student   |-> withFeedback(cls)[j].username,
              classDate |-> cls.scheduledStart,
              feedback  |-> Trim(OrEmpty(withFeedback(cls)[j].feedback)),
              rating    |-> Trim(OrEmpty(withFeedback(cls)[j].rating)),
              slug      |-> cls.slug,
              row       |-> withFeedback(cls)[j].row ]]

buildTeacherFeedbackCSV(processedData) ==
    Concat([k \in 1..Len(processedData) |-> feedbackRowsOf(processedData[k])])

-----------------------------------------------------------------------------
(* 5.1 buildPrivateAveragesTable                                           *)
(*                                                                         *)
(* A stats object keeps its sums in the unit of the model (hundredths of   *)
(* an hour for intervals, seconds for tardiness and class dates); a cell   *)
(* of the table is the number of hundredths toFixed(2) prints.             *)

\* the observations of an interval field: parseFloat of the non-blank cells
intervalsOf(cells) ==
    Concat([k \in 1..Len(cells) |-> cells[k]])

\* teacherStats: one entry per teacher name of a private class, first seen first
teacherStatsOf(d) ==
    LET private == SelectSeq(d, LAMBDA cls : cls.available_seats = 1
                                              /\ ~Falsy(teacherUsername(cls)))
        names == unique([k \in 1..Len(private) |-> teacherUsername(private[k])])
    IN [t \in 1..Len(names) |->
          LET mine == SelectSeq(private, LAMBDA cls : teacherUsername(cls) = names[t])
              n(test(_)) == Len(SelectSeq(mine, test))
              intervals == intervalsOf([k \in 1..Len(mine) |-> mine[k].cancelledInterval])
          IN [ key |-> names[t],
               total |-> Len(mine),
               attended |-> n(teacherAttendedOf),
               cancelled |-> n(LAMBDA cls : ~Falsy(cls.cancelledBy)),
               cancelledByTeacher |-> n(LAMBDA cls : cls.cancelledByTeacher),
               cancelledByStudent |-> n(LAMBDA cls : cls.cancelledByStudent),
               cancelledByAdmin |-> n(LAMBDA cls : cls.cancelledByAdmin),
               cancelledIntervalSum |-> JsSum(intervals),
               cancelledIntervalCount |-> Len(intervals),
               teacherNoShow |-> n(teacherCancelledOf),
               studentNoShow |-> n(allStudentsAbsent),
               tardinessSum |-> JsSum([k \in 1..Len(mine) |-> teacherTardinessOf(mine[k])]),
               tardinessCount |-> Len(mine),
               enrolIntervalSum |-> 0,
               enrolIntervalCount |-> 0,
               classDates |-> [k \in 1..Len(mine) |-> DateSeconds(mine[k].scheduledStart)] ]]

\* the student entries of the private classes, each with its class
privateEntries(d) ==
    LET private == SelectSeq(d, LAMBDA cls : cls.available_seats = 1)
    IN Concat([k \in 1..Len(private) |->
                  [j \in 1..Len(private[k].students) |->
                      [cls |-> private[k], student |-> private[k].students[j]]]])

\* the observations of an interval a student entry adds: !isNaN(parseFloat(cell))
numericCell(cell) == IF cell = Blank \/ IsNaN(cell[1]) THEN <<>> ELSE cell

\* studentStats: one entry per student username of a private class
studentStatsOf(d) ==
    LET entries == SelectSeq(privateEntries(d), LAMBDA p : ~Falsy(p.student.username))
        names == unique([k \in 1..Len(entries) |-> entries[k].student.username])
    IN [s \in 1..Len(names) |->
          LET mine == SelectSeq(entries, LAMBDA p : p.student.username = names[s])
              n(test(_)) == Len(SelectSeq(mine, test))
              byStudent(p) == p.student.cancelled /\ p.student.cancelledBy = names[s]
              byTeacher(p) == /\ p.student.cancelled /\ ~byStudent(p)
                              /\ p.student.cancelledBy = teacherUsername(p.cls)
              cancellations == Concat([k \in 1..Len(mine) |->
                                  IF mine[k].student.cancelled
                                  THEN numericCell(mine[k].student.cancelledInterval)
                                  ELSE <<>>])
              enrolments == Concat([k \in 1..Len(mine) |->
                                  numericCell(mine[k].student.enrolmentInterval)])
          IN [ key |-> names[s],
               total |-> Len(mine),
               attended |-> n(LAMBDA p : p.student.attended),
               cancelled |-> n(LAMBDA p : p.student.cancelled),
               cancelledByStudent |-> n(byStudent),
               cancelledByTeacher |-> n(byTeacher),
               cancelledByAdmin |-> n(LAMBDA p : /\ p.student.cancelled /\ ~byStudent(p)
                                                 /\ ~byTeacher(p)
                                                 /\ ~Falsy(p.student.cancelledBy)),
               cancelledIntervalSum |-> JsSum(cancellations),
               cancelledIntervalCount |-> Len(cancellations),
               enrolIntervalSum |-> JsSum(enrolments),
               enrolIntervalCount |-> Len(enrolments),
               tardinessSum |-> JsSum([k \in 1..Len(mine) |-> mine[k].student.tardiness]),
               tardinessCount |-> Len(mine),
               studentNoShow |-> n(LAMBDA p : ~p.student.attended),
               teacherNoShow |-> n(LAMBDA p : ~teacherAttendedOf(p.cls)),
               classDates |-> [k \in 1..Len(mine) |-> DateSeconds(mine[k].cls.scheduledStart)] ]]

\* the product of a sequence of positive numbers
ProductOf(xs) ==
    LET F[i \in 0..Len(xs)] == IF i = 0 THEN 1 ELSE F[i - 1] * xs[i]
    IN F[Len(xs)]

\* (sum of nums[i] / dens[i] over the i with dens[i] # 0) / (unit * count),
\* to 2 decimals; a term with dens[i] = 0 is 0
meanOfRatios(nums, dens, unit, count) ==
    LET L == ProductOf([i \in 1..Len(dens) |-> IF dens[i] = 0 THEN 1 ELSE dens[i]])
        terms == [i \in 1..Len(nums) |->
                     IF dens[i] = 0 THEN 0
                     ELSE IF IsNaN(nums[i]) THEN NaN
                     ELSE nums[i] * (L \div dens[i])]
    IN Fixed2Div(JsSum(terms), unit * L * count)

\* avg(key)
avg(values, key) ==
    IF values = <<>> THEN 0
    ELSE Fixed2Div(SumTo(Len(values), [i \in 1..Len(values) |-> values[i][key]]),
                   Len(values))

\* avgDiv(numKey, denomKey): an entry without observation adds nothing to the
\* sum, and the sum is divided by the number of all entries
avgDiv(values, numKey, denomKey, unit) ==
    IF values = <<>> THEN 0
    ELSE meanOfRatios([i \in 1..Len(values) |-> values[i][numKey]],
                      [i \in 1..Len(values) |-> values[i][denomKey]],
                      unit, Len(values))

\* the sum of the gaps of the sorted class dates of an entry (0 with fewer
\* than two dates) and the number of gaps
gapSum(dates) ==
    IF Len(dates) < 2 THEN 0
    ELSE IF \E i \in 1..Len(dates) : IsNaN(dates[i]) THEN NaN
    ELSE LET hi == CHOOSE x \in Range(dates) : \A y \in Range(dates) : y <= x
             lo == CHOOSE x \in Range(dates) : \A y \in Range(dates) : x <= y
         IN hi - lo

\* calcAvg(statsMap)
calcAvg(values) ==
    [ total |-> avg(values, "total"),
      attended |-> avg(values, "attended"),
      cancelled |-> avg(values, "cancelled"),
      cancelledByStudent |-> avg(values, "cancelledByStudent"),
      cancelledByTeacher |-> avg(values, "cancelledByTeacher"),
      cancelledByAdmin |-> avg(values, "cancelledByAdmin"),
      cancellationInterval |->
          avgDiv(values, "cancelledIntervalSum", "cancelledIntervalCount", 100),
      teacherNoShow |-> avg(values, "teacherNoShow"),
      studentNoShow |-> avg(values, "studentNoShow"),
      tardiness |-> avgDiv(values, "tardinessSum", "tardinessCount", 60),
      enrolmentInterval |->
          avgDiv(values, "enrolIntervalSum", "enrolIntervalCount", 100),
      classInterval |->
          IF values = <<>> THEN 0
          ELSE meanOfRatios([i \in 1..Len(values) |-> gapSum(values[i].classDates)],
                            [i \in 1..Len(values) |->
                                IF Len(values[i].classDates) < 2 THEN 0
                                ELSE Len(values[i].classDates) - 1],
                            3600, Len(values)) ]

\* buildPrivateAveragesTable: the Students and the Teachers column
buildPrivateAveragesTable(d) ==
    [ students |-> calcAvg(studentStatsOf(d)),
      teachers |-> calcAvg(teacherStatsOf(d)) ]

-----------------------------------------------------------------------------
(* 4. UI state and the upload handler *)

\* unique(Object.values(data).map((c) => c.course_id))
coursesOf(d) == unique([k \in 1..Len(d) |-> d[k].course_id])

\* unique(Object.values(data).map((c) => c.company).filter(Boolean))
companiesOf(d) ==
    unique(SelectSeq([k \in 1..Len(d) |-> d[k].company], LAMBDA c : ~Falsy(c)))

\* one checkbox per distinct rounded duration; 30 and 60 come checked
durationCheckboxes(d) ==
    [x \in {durationMinOf(d[k]) : k \in 1..Len(d)} |-> x = 30 \/ x = 60]

\* step 8: the usernames of all students, first occurrence first
studentUsernamesOf(d) ==
    unique(SelectSeq(
        Concat([k \in 1..Len(d) |->
                  [j \in 1..Len(d[k].students) |-> d[k].students[j].username]]),
        LAMBDA u : ~Falsy(u)))

NoReport == [kind |-> "none"]

\* uploadBtn click: parse, process, fill the drop-downs and the duration
\* checkboxes (30 and 60 come checked), show the report selector
Upload ==
    /\ panel = "fileUploadPanel"
    /\ data' = processData(classesFile, participantsFile)
    /\ courses' = coursesOf(data')
    /\ companies' = companiesOf(data')
    /\ durationFilter' = durationCheckboxes(data')
    /\ validatedStudentUsernames' = studentUsernamesOf(data')
    /\ panel' = "reportSelectorPanel"
    /\ UNCHANGED <<classesFile, participantsFile, report>>

\* newUploadBtn click: location.reload() – the page state is the initial one
\* again; the same two files can be chosen again
NewUpload ==
    /\ data' = <<>>
    /\ courses' = <<>>
    /\ companies' = <<>>
    /\ validatedStudentUsernames' = <<>>
    /\ durationFilter' = <<>>
    /\ panel' = "fileUploadPanel"
    /\ report' = NoReport
    /\ UNCHANGED <<classesFile, participantsFile>>

PageLoaded ==
    /\ data = <<>>
    /\ courses = <<>>
    /\ companies = <<>>
    /\ validatedStudentUsernames = <<>>
    /\ durationFilter = <<>>
    /\ panel = "fileUploadPanel"
    /\ report = NoReport

\* reportSelect change: show the settings panel of the chosen report.  show()
\* hides every other panel, the output panels included; an output panel is
\* shown again only by its generate handler, which rewrites it first, so
\* `report` keeps the content of the visible output panel only.
settingsPanelOf(v) ==
    CASE v = "teacher_hour_count" -> "teacherHourCountSettings"
      [] v = "overview" -> "overviewSettings"
      [] v = "teacher_report" -> "teacherReportPanel"
      [] v = "course_report" -> "courseReportSettings"
      [] v = "student_report" -> "studentReportSettings"
      [] v = "class_list" -> "classListPanel"
      [] OTHER -> "reportSelectorPanel"

\* the options of the reportSelect drop-down
ReportOptions ==
    {"", "teacher_hour_count", "overview", "teacher_report", "course_report",
     "student_report", "class_list"}

SelectReport ==
    /\ panel # "fileUploadPanel"
    /\ \E v \in ReportOptions : panel' = settingsPanelOf(v)
    /\ report' = NoReport
    /\ UNCHANGED <<classesFile, participantsFile, data, courses, companies,
                   validatedStudentUsernames, durationFilter>>

\* the values the user may have put in the Hour Count settings panel
HourCountSettings ==
    { [ tardinessLimit |-> 5, cancellationWindow |-> 24,
        penaliseTardiness |-> p, payLastMinuteCancellation |-> c,
        payStudentNoShow |-> n, studentNoShowRate |-> rf[1],
        classTypeFilter |-> rf[2] ] :
        p \in BOOLEAN, c \in BOOLEAN, n \in BOOLEAN,
        rf \in {<<125, "both">>, <<500, "private">>, <<1000, "group">>} }

\* generateHourCountBtn click: read the settings and the checked durations,
\* keep the classes of a checked duration, build the detailed and the
\* simplified CSV, show the output panel
GenerateHourCount ==
    /\ panel = "teacherHourCountSettings"
    /\ \E settings \in HourCountSettings, selectedDurations \in SUBSET (DOMAIN durationFilter) :
          LET filteredData == selectedData(data, selectedDurations) IN
          report' = [ kind |-> "hourCount",
                      settings |-> settings,
                      filteredData |-> filteredData,
                      detailed |-> buildTeacherHourCountCSV(filteredData, settings, FALSE),
                      simple |-> buildTeacherHourCountCSV(filteredData, settings, TRUE) ]
    /\ panel' = "hourCountReportOutput"
    /\ UNCHANGED <<classesFile, participantsFile, data, courses, companies,
                   validatedStudentUsernames, durationFilter>>

\* generateOverviewBtn click: the two overview tables and the private
\* averages table
GenerateOverview ==
    /\ panel = "overviewSettings"
    /\ \E cancellationWindow \in {2, 24} :
          report' = [ kind |-> "overview",
                      cancellationWindow |-> cancellationWindow,
                      tallies |-> buildOverviewData(data, cancellationWindow),
                      averages |-> buildPrivateAveragesTable(data) ]
    /\ panel' = "overviewReportOutput"
    /\ UNCHANGED <<classesFile, participantsFile, data, courses, companies,
                   validatedStudentUsernames, durationFilter>>

\* generateTeacherReportBtn click: the private, the group and the feedback
\* table
GenerateTeacherReport ==
    /\ panel = "teacherReportPanel"
    /\ report' = [ kind |-> "teacher",
                   private |-> buildTeacherPrivateClassesCSV(data),
                   group |-> buildTeacherGroupClassesCSV(data),
                   feedback |-> buildTeacherFeedbackCSV(data) ]
    /\ panel' = "teacherReportOutput"
    /\ UNCHANGED <<classesFile, participantsFile, data, courses, companies,
                   validatedStudentUsernames, durationFilter>>

\* the value of the courseSelect drop-down: one of its options, '' when it
\* has none
CourseOptions == IF courses = <<>> THEN {""} ELSE Range(courses)

\* generateCourseReportBtn click: the overview of all courses, or the detail
\* of the selected course (info row and class list), with the per-student
\* summary for the fundae type and an emptied summary table otherwise
GenerateCourseReportMutSortsModel ==
    /\ panel = "courseReportSettings"
    /\ \E courseType \in {"overview", "detail", "fundae"}, selectedCourseId \in CourseOptions :
          IF courseType = "overview"
          THEN /\ report' = [ kind |-> "allCourses",
                              rows |-> buildAllCoursesOverviewCSV(data) ]
               /\ panel' = "allCoursesOverviewReport"
          ELSE /\ report' = [ kind |-> "courseDetail",
                              courseType |-> courseType,
                              courseId |-> selectedCourseId,
                              detail |-> buildCourseDetailReport(data, selectedCourseId),
                              studentOverview |->
                                  IF courseType = "fundae"
                                  THEN buildCourseStudentOverviewCSV(data, selectedCourseId)
                                  ELSE <<>> ]
               /\ panel' = "courseDetailedReport"
    /\ data' = sortByStart(data)
    /\ UNCHANGED <<classesFile, participantsFile, courses, companies,
                   validatedStudentUsernames, durationFilter>>
GenerateCourseReport ==
    /\ panel = "courseReportSettings"
    /\ \E courseType \in {"overview", "detail", "fundae"}, selectedCourseId \in CourseOptions :
          IF courseType = "overview"
          THEN /\ report' = [ kind |-> "allCourses",
                              rows |-> buildAllCoursesOverviewCSV(data) ]
               /\ panel' = "allCoursesOverviewReport"
          ELSE /\ report' = [ kind |-> "courseDetail",
                              courseType |-> courseType,
                              courseId |-> selectedCourseId,
                              detail |-> buildCourseDetailReport(data, selectedCourseId),
                              studentOverview |->
                                  IF courseType = "fundae"
                                  THEN buildCourseStudentOverviewCSV(data, selectedCourseId)
                                  ELSE <<>> ]
               /\ panel' = "courseDetailedReport"
    /\ UNCHANGED <<classesFile, participantsFile, data, courses, companies,
                   validatedStudentUsernames, durationFilter>>

\* the settings the user may have put in the Student Report panel: the
\* window, an option of companySelect ('ALL' first), the selection mode (the
\* company radio is disabled without companies) and, for the custom mode,
\* the valid tags, each a validated username
StudentReportOptions ==
    { [ cancellationWindow |-> w, companyId |-> c, filterMode |-> m,
        customList |-> IF m = "custom" THEN l ELSE {} ] :
        w \in {2, 24},
        c \in {"ALL"} \cup Range(companies),
        m \in {"all", "custom"} \cup (IF companies = <<>> THEN {} ELSE {"company"}),
        l \in SUBSET Range(validatedStudentUsernames) }

\* generateStudentReportBtn click
GenerateStudentReport ==
    /\ panel = "studentReportSettings"
    /\ \E options \in StudentReportOptions :
          report' = [ kind |-> "student",
                      options |-> options,
                      rows |-> buildStudentReport(data, options) ]
    /\ panel' = "studentReportOutput"
    /\ UNCHANGED <<classesFile, participantsFile, data, courses, companies,
                   validatedStudentUsernames, durationFilter>>

-----------------------------------------------------------------------------
(* The extracts.  A class row and a participant row carry the columns the  *)
(* program reads, under the names it gives them.                           *)

ClassRow(start, end, seats, slug, cancelledBy, cancelledTime) ==
    [ start |-> start, end |-> end, company |-> "acme", slug |-> slug,
      seats |-> seats, cancelledBy |-> cancelledBy,
      cancelledTime |-> cancelledTime, course_id |-> "c1",
      description |-> "", subject |-> "", level |-> "" ]

PartRow(slug, username, isTeacher, attended, schedJoin, actualJoin, cancelled, cancelledBy, cancelledTime, enrolledAt) ==
    [ slug |-> slug, schedJoin |-> schedJoin, username |-> username,
      isTeacher |-> isTeacher, attended |-> attended, actualJoin |-> actualJoin,
      cancelled |-> cancelled, cancelledBy |-> cancelledBy,
      cancelledTime |-> cancelledTime, rating |-> "", feedback |-> "",
      enrolledAt |-> enrolledAt ]

SeqsUpTo(S, lo, hi) == UNION {[1..n -> S] : n \in lo..hi}

MaxClasses == 2     \* class rows of an extract
MaxParts == 3       \* participant rows of an extract

\* Extracts that vary the timestamps: one class row, one participant row.
TimeClassRows ==
    { ClassRow(st, en, "1", "s1", c[1], c[2]) :
        st \in {"", TBad, T1000},
        en \in {"", TBad, T1100, T0930, T0800},
        c \in {<<"", "">>, <<"adm", T0900>>, <<"adm", "">>} }

TimePartRows ==
    { PartRow("s1", "u1", mk, "true", sj, aj, "false", "", ct, ea) :
        mk \in {"true", "false"},
        sj \in {"", T1000},
        aj \in {"", TBad, T0800, T1005, T1230},
        ct \in {"", T0900},
        ea \in {"", T0900} }

TimeInputs == { <<<<c>>, <<p>>>> : c \in TimeClassRows, p \in TimePartRows }

\* Extracts that vary who is who: session ids, usernames, teacher markers,
\* the cancellation actor.
RoleClassRows ==
    { ClassRow(T1000, T1100, "1", "s1", "", ""),
      ClassRow(T1000, T1100, "1", "s1", "u1", T0900),
      ClassRow(T1000, T1100, "1", "s1", "adm", T0900),
      ClassRow(T1000, T1100, "5", "s2", "u2", ""),
      ClassRow(T1000, T1030, "1", "", "", "") }

RolePartRows ==
    { PartRow(r[1], r[2], r[3], "true", T1000, T1005, "false", "", "", "") :
        r \in { <<"s1", "u1", "true">>, <<"s1", "u1", "false">>,
                <<"s1", "u2", "false">>, <<"s1", "u2", " True ">>,
                <<"s2", "u1", "true">>, <<"s2", "u2", "false">> } }

RoleInputs ==
    SeqsUpTo(RoleClassRows, 1, MaxClasses) \X SeqsUpTo(RolePartRows, 0, MaxParts)

\* Extracts that repeat and omit session ids: up to MaxIdRows class rows,
\* the participants being one teacher and one student of s1.
MaxIdRows == 3

IdInputs ==
    SeqsUpTo(RoleClassRows, 1, MaxIdRows)
      \X { << PartRow("s1", "u1", "true", "true", T1000, T1005, "false", "", "", ""),
              PartRow("s1", "u2", "false", "true", T1000, T1005, "false", "", "", "") >> }

\* Extracts for the reports: sessions s1, s2, ... in this order, each with
\* an optional teacher row followed by its student rows.
MaxStudents == 2    \* student rows of the one session of StudentInputs

SlugAt(k) == <<"s1", "s2", "s3", "s4">>[k]
StudentAt(j) == <<"u1", "u2", "u3", "u4">>[j]

\* what a student row can say: attended; absent; cancelled one hour before
\* the start; cancelled five days before; cancelled without a timestamp;
\* cancelled one hour before, by the teacher
StudentKinds == {"attended", "absent", "late", "early", "untimed", "byTeacher"}

StudentRow(slug, u, kind) ==
    PartRow(slug, u, "false",
            IF kind = "attended" THEN "true" ELSE "false",
            T1000, IF kind = "attended" THEN T1005 ELSE "",
            IF kind \in {"attended", "absent"} THEN "false" ELSE "true",
            CASE kind \in {"attended", "absent"} -> ""
              [] kind = "byTeacher" -> "t1"
              [] OTHER -> u,
            CASE kind \in {"late", "byTeacher"} -> T0900
              [] kind = "early" -> T0110
              [] OTHER -> "",
            T0900)

\* what a teacher row can say: on time; ten minutes late; absent; attended
\* with the row's own cancelled flag set
TeacherRow(slug, t, kind) ==
    PartRow(slug, t, "true",
            IF kind = "absent" THEN "false" ELSE "true",
            T1000,
            CASE kind = "late" -> T1010 [] kind = "absent" -> "" [] OTHER -> T1000,
            IF kind = "flagged" THEN "true" ELSE "false",
            "", "", "")

\* one private 60-minute session of teacher t1 with up to MaxStudents students
StudentInputs ==
    { << <<ClassRow(T1000, T1100, "1", "s1", "", "")>>,
         <<TeacherRow("s1", "t1", "ontime")>>
            \o [j \in 1..Len(ks) |-> StudentRow("s1", StudentAt(j), ks[j])] >> :
        ks \in SeqsUpTo(StudentKinds, 0, MaxStudents) }

\* a session variant: seats, end, cancellation actor, teacher (name, kind)
\* or none, and the kinds of its students
SessionVariants ==
    { [seats |-> "1", end |-> T1100, by |-> "", teacher |-> <<"t1", "ontime">>, students |-> <<"attended">>],
      [seats |-> "1", end |-> T1100, by |-> "", teacher |-> <<"t1", "late">>, students |-> <<"late">>],
      [seats |-> "1", end |-> T1100, by |-> "adm", teacher |-> <<"t1", "ontime">>, students |-> <<"absent">>],
      [seats |-> "1", end |-> T1100, by |-> "", teacher |-> <<"t1", "flagged">>, students |-> <<"absent">>],
      [seats |-> "1", end |-> T1030, by |-> "", teacher |-> <<>>, students |-> <<"absent">>],
      [seats |-> "1", end |-> T1030, by |-> "", teacher |-> <<"", "ontime">>, students |-> <<"attended">>],
      [seats |-> "1", end |-> T1030, by |-> "", teacher |-> <<"t2", "late">>, students |-> <<"absent", "absent">>],
      [seats |-> "5", end |-> T1100, by |-> "", teacher |-> <<"t1", "late">>, students |-> <<"absent", "late">>],
      [seats |-> "5", end |-> T1030, by |-> "u1", teacher |-> <<"t2", "absent">>, students |-> <<"attended", "absent">>],
      [seats |-> "0", end |-> T1100, by |-> "", teacher |-> <<"t2", "ontime">>, students |-> <<>>] }

VariantClassRow(v, k) ==
    ClassRow(T1000, v.end, v.seats, SlugAt(k), v.by, IF v.by = "" THEN "" ELSE T0900)

VariantPartRows(v, k) ==
    (IF v.teacher = <<>> THEN <<>>
     ELSE <<TeacherRow(SlugAt(k), v.teacher[1], v.teacher[2])>>)
    \o [j \in 1..Len(v.students) |-> StudentRow(SlugAt(k), StudentAt(j), v.students[j])]

SessionInputs ==
    { << [k \in 1..Len(vs) |-> VariantClassRow(vs[k], k)],
         Concat([k \in 1..Len(vs) |-> VariantPartRows(vs[k], k)]) >> :
        vs \in SeqsUpTo(SessionVariants, 1, MaxClasses) }

\* Extracts for the course reports.  A variant is a session: its course id,
\* start, level / subject / description, seats, teacher (or none) and its
\* students (username, kind).
CourseVariants ==
    { [course |-> "c1", start |-> T1000, meta |-> <<"B1", "english", "intro">>, seats |-> "5",
       teacher |-> <<"t1">>, students |-> <<<<"u1", "attended">>, <<"u2", "absent">>>>],
      [course |-> "c1", start |-> T0900, meta |-> <<"A2", "spanish", "basics">>, seats |-> "2",
       teacher |-> <<"t2">>, students |-> <<<<"u1", "attended">>>>],
      [course |-> "c1", start |-> T1100, meta |-> <<"", "", "">>, seats |-> "0",
       teacher |-> <<"t1">>, students |-> <<<<"u2", "late">>, <<"u3", "attended">>>>],
      [course |-> "c1", start |-> T1000, meta |-> <<"C2", "english", "tie">>, seats |-> "1",
       teacher |-> <<>>, students |-> <<<<"u1", "early">>>>],
      [course |-> "c2", start |-> T1000, meta |-> <<"C1", "french", "advanced">>, seats |-> "1",
       teacher |-> <<"t1">>, students |-> <<>>],
      [course |-> "c2", start |-> T0900, meta |-> <<"B2", "german", "grammar">>, seats |-> "5",
       teacher |-> <<"t2">>,
       students |-> <<<<"u1", "absent">>, <<"u2", "attended">>, <<"u3", "attended">>>>],
      [course |-> "", start |-> T0900, meta |-> <<"A1", "", "">>, seats |-> "1",
       teacher |-> <<>>, students |-> <<<<"u1", "absent">>>>],
      [course |-> "", start |-> T0800, meta |-> <<"A1", "english", "trial">>, seats |-> "x",
       teacher |-> <<"t1">>, students |-> <<<<"u4", "attended">>>>] }

MaxCourseSessions == 3

CourseClassRow(v, k) ==
    [ ClassRow(v.start, T1230, v.seats, SlugAt(k), "", "")
        EXCEPT !.course_id = v.course, !.level = v.meta[1], !.subject = v.meta[2],
               !.description = v.meta[3] ]

CoursePartRows(v, k) ==
    (IF v.teacher = <<>> THEN <<>>
     ELSE <<TeacherRow(SlugAt(k), v.teacher[1], "ontime")>>)
    \o [j \in 1..Len(v.students) |->
           StudentRow(SlugAt(k), v.students[j][1], v.students[j][2])]

CourseInputs ==
    { << [k \in 1..Len(vs) |-> CourseClassRow(vs[k], k)],
         Concat([k \in 1..Len(vs) |-> CoursePartRows(vs[k], k)]) >> :
        vs \in SeqsUpTo(CourseVariants, 1, MaxCourseSessions) }

InitCourse ==
    /\ \E in \in CourseInputs :
          classesFile = in[1] /\ participantsFile = in[2]
    /\ PageLoaded

NextCourse == Upload \/ NewUpload \/ SelectReport \/ GenerateCourseReport

\* the page with the course reports
SpecCourse == InitCourse /\ [][NextCourse]_vars

\* Extracts for the session x student matrix.  A variant is a session: its
\* course id, cancellation actor and students (username, kind); "both" is a
\* row marked cancelled and attended, and one session lists u1 twice.
MatrixVariants ==
    { [course |-> "c1", by |-> "", students |-> <<<<"u1", "attended">>, <<"u2", "absent">>>>],
      [course |-> "c1", by |-> "u1", students |-> <<<<"u1", "late">>, <<"u3", "attended">>>>],
      [course |-> "c1", by |-> "", students |-> <<<<"u1", "both">>, <<"u2", "attended">>>>],
      [course |-> "c1", by |-> "", students |-> <<<<"u1", "attended">>, <<"u1", "absent">>>>],
      [course |-> "c1", by |-> "adm", students |-> <<>>],
      [course |-> "c2", by |-> "", students |-> <<<<"u2", "untimed">>>>] }

MaxMatrixSessions == 3

MatrixClassRow(v, k) ==
    [ ClassRow(T1000, T1100, "5", SlugAt(k), v.by, IF v.by = "" THEN "" ELSE T0900)
        EXCEPT !.course_id = v.course ]

MatrixPartRows(v, k) ==
    <<TeacherRow(SlugAt(k), "t1", "ontime")>>
    \o [j \in 1..Len(v.students) |->
           IF v.students[j][2] = "both"
           THEN [ StudentRow(SlugAt(k), v.students[j][1], "late")
                    EXCEPT !.attended = "true", !.actualJoin = T1005 ]
           ELSE StudentRow(SlugAt(k), v.students[j][1], v.students[j][2])]

MatrixInputs ==
    { << [k \in 1..Len(vs) |-> MatrixClassRow(vs[k], k)],
         Concat([k \in 1..Len(vs) |-> MatrixPartRows(vs[k], k)]) >> :
        vs \in SeqsUpTo(MatrixVariants, 1, MaxMatrixSessions) }

InitMatrix ==
    /\ \E in \in MatrixInputs :
          classesFile = in[1] /\ participantsFile = in[2]
    /\ PageLoaded

\* the page with the course reports, for every kind of participation
SpecMatrix == InitMatrix /\ [][NextCourse]_vars

\* Extracts for the student report.  A variant is a session: company, start,
\* seats and its students (username, kind, enrolment timestamp, rating).
EnrolmentVariants ==
    { [company |-> "acme", start |-> T1000, seats |-> "1",
       students |-> << <<"u1", "attended", T0900, "5">> >>],
      [company |-> "acme", start |-> T1100, seats |-> "5",
       students |-> << <<"u1", "absent", "", "">>, <<"u2", "attended", T0930, "4">> >>],
      [company |-> "globex", start |-> T1000, seats |-> "1",
       students |-> << <<"u1", "late", T0110, "">> >>],
      [company |-> "globex", start |-> T0900, seats |-> "5",
       students |-> << <<"u3", "untimed", "", "3">>, <<"", "attended", T0800, " 5 ">> >>],
      [company |-> "", start |-> T1000, seats |-> "1",
       students |-> << <<"u2", "early", T0800, "">> >>],
      [company |-> "acme", start |-> "", seats |-> "1",
       students |-> << <<"u2", "attended", T0900, "">> >>] }

MaxStudentSessions == 3

EnrolmentClassRow(v, k) ==
    [ ClassRow(v.start, T1230, v.seats, SlugAt(k), "", "") EXCEPT !.company = v.company ]

EnrolmentPartRows(v, k) ==
    <<TeacherRow(SlugAt(k), "t1", "ontime")>>
    \o [j \in 1..Len(v.students) |->
           [ StudentRow(SlugAt(k), v.students[j][1], v.students[j][2])
               EXCEPT !.enrolledAt = v.students[j][3], !.rating = v.students[j][4] ]]

EnrolmentInputs ==
    { << [k \in 1..Len(vs) |-> EnrolmentClassRow(vs[k], k)],
         Concat([k \in 1..Len(vs) |-> EnrolmentPartRows(vs[k], k)]) >> :
        vs \in SeqsUpTo(EnrolmentVariants, 1, MaxStudentSessions) }

InitStudent ==
    /\ \E in \in EnrolmentInputs :
          classesFile = in[1] /\ participantsFile = in[2]
    /\ PageLoaded

NextStudent == Upload \/ NewUpload \/ SelectReport \/ GenerateStudentReport

\* the page with the student report
SpecStudent == InitStudent /\ [][NextStudent]_vars

\* Extracts for the teacher reports.  A variant is a session: seats,
\* cancellation actor, teacher (name, kind) or none, and its students
\* (username, kind, rating, feedback).
FeedbackVariants ==
    { [seats |-> "1", by |-> "", teacher |-> <<"t1", "ontime">>,
       students |-> << <<"u1", "attended", "5", "great">> >>],
      [seats |-> "1", by |-> "", teacher |-> <<>>,
       students |-> << <<"u1", "attended", "4", "nobody came">> >>],
      [seats |-> "5", by |-> "", teacher |-> <<"t1", "late">>,
       students |-> << <<"u1", "attended", "", " ">>, <<"u2", "absent", "", "">> >>],
      [seats |-> "5", by |-> "u1", teacher |-> <<"t2", "ontime">>,
       students |-> << <<"u1", "late", "", "">>, <<"u2", "attended", " 5 ", "">> >>],
      [seats |-> "1", by |-> "adm", teacher |-> <<"t2", "absent">>,
       students |-> << <<"u3", "absent", "", "ok, fine">> >>],
      [seats |-> "1", by |-> "", teacher |-> <<"", "ontime">>,
       students |-> << <<"u2", "attended", "3", "">> >>],
      [seats |-> "x", by |-> "", teacher |-> <<"t1", "ontime">>,
       students |-> << <<"u1", "absent", "3", "">> >>],
      [seats |-> "1", by |-> "t1", teacher |-> <<"t1", "ontime">>,
       students |-> << <<"u1", "absent", "", "">> >>] }

MaxTeacherSessions == 3

FeedbackClassRow(v, k) ==
    ClassRow(T1000, T1100, v.seats, SlugAt(k), v.by, IF v.by = "" THEN "" ELSE T0900)

FeedbackPartRows(v, k) ==
    (IF v.teacher = <<>> THEN <<>>
     ELSE <<TeacherRow(SlugAt(k), v.teacher[1], v.teacher[2])>>)
    \o [j \in 1..Len(v.students) |->
           [ StudentRow(SlugAt(k), v.students[j][1], v.students[j][2])
               EXCEPT !.rating = v.students[j][3], !.feedback = v.students[j][4] ]]

FeedbackInputs ==
    { << [k \in 1..Len(vs) |-> FeedbackClassRow(vs[k], k)],
         Concat([k \in 1..Len(vs) |-> FeedbackPartRows(vs[k], k)]) >> :
        vs \in SeqsUpTo(FeedbackVariants, 1, MaxTeacherSessions) }

InitTeacher ==
    /\ \E in \in FeedbackInputs :
          classesFile = in[1] /\ participantsFile = in[2]
    /\ PageLoaded

NextTeacher == Upload \/ NewUpload \/ SelectReport \/ GenerateTeacherReport

\* the page with the teacher reports
SpecTeacher == InitTeacher /\ [][NextTeacher]_vars

Init ==
    /\ \E in \in StudentInputs \cup SessionInputs :
          classesFile = in[1] /\ participantsFile = in[2]
    /\ PageLoaded

Next == Upload \/ NewUpload \/ SelectReport \/ GenerateHourCount \/ GenerateOverview

\* the page: upload, generate reports in any order, reload
Spec == Init /\ [][Next]_vars

\* Extracts that vary the teacher's join time.  A variant is a session:
\* seats, whether the teacher attended, and the teacher's actual join time
\* (scheduled 10:00:00).
TardyVariants ==
    { [seats |-> "1", attended |-> "true", join |-> T1000],
      [seats |-> "1", attended |-> "true", join |-> T1005],
      [seats |-> "1", attended |-> "true", join |-> T100520],
      [seats |-> "1", attended |-> "true", join |-> T100530],
      [seats |-> "1", attended |-> "true", join |-> T1010],
      [seats |-> "1", attended |-> "true", join |-> TBad],
      [seats |-> "1", attended |-> "false", join |-> T1010],
      [seats |-> "5", attended |-> "true", join |-> T100520],
      [seats |-> "5", attended |-> "true", join |-> T1010] }

MaxTardySessions == 2

TardyPartRows(v, k) ==
    << PartRow(SlugAt(k), "t1", "true", v.attended, T1000, v.join, "false", "", "", ""),
       StudentRow(SlugAt(k), "u1", "attended") >>

TardyInputs ==
    { << [k \in 1..Len(vs) |-> ClassRow(T1000, T1100, vs[k].seats, SlugAt(k), "", "")],
         Concat([k \in 1..Len(vs) |-> TardyPartRows(vs[k], k)]) >> :
        vs \in SeqsUpTo(TardyVariants, 1, MaxTardySessions) }

InitTardy ==
    /\ \E in \in TardyInputs :
          classesFile = in[1] /\ participantsFile = in[2]
    /\ PageLoaded

NextTardy == Upload \/ NewUpload \/ SelectReport \/ GenerateHourCount

\* the page with the Compensation report, for teachers who join late
SpecTardy == InitTardy /\ [][NextTardy]_vars

\* Extracts that vary who cancelled: sessions as in SessionVariants, among
\* them a teacher and a student with the same username u1
AttributionVariants ==
    { [seats |-> "1", end |-> T1100, by |-> "", teacher |-> <<"t1", "ontime">>, students |-> <<"attended">>],
      [seats |-> "1", end |-> T1100, by |-> "", teacher |-> <<"t1", "absent">>, students |-> <<"absent">>],
      [seats |-> "1", end |-> T1100, by |-> "u1", teacher |-> <<"t1", "ontime">>, students |-> <<"late">>],
      [seats |-> "1", end |-> T1100, by |-> "t1", teacher |-> <<"t1", "ontime">>, students |-> <<"absent">>],
      [seats |-> "1", end |-> T1100, by |-> "adm", teacher |-> <<"t1", "absent">>, students |-> <<"absent">>],
      [seats |-> "1", end |-> T1100, by |-> "u1", teacher |-> <<"u1", "ontime">>, students |-> <<"late">>],
      [seats |-> "5", end |-> T1100, by |-> "", teacher |-> <<>>, students |-> <<"attended", "absent">>],
      [seats |-> "5", end |-> T1100, by |-> "u1", teacher |-> <<"u1", "absent">>, students |-> <<"late", "absent">>],
      [seats |-> "5", end |-> T1030, by |-> "", teacher |-> <<"t1", "ontime">>, students |-> <<"attended">>] }

MaxTallySessions == 2

AttributionInputs ==
    { << [k \in 1..Len(vs) |-> VariantClassRow(vs[k], k)],
         Concat([k \in 1..Len(vs) |-> VariantPartRows(vs[k], k)]) >> :
        vs \in SeqsUpTo(AttributionVariants, 1, MaxTallySessions) }

InitTally ==
    /\ \E in \in AttributionInputs :
          classesFile = in[1] /\ participantsFile = in[2]
    /\ PageLoaded

NextTally == Upload \/ NewUpload \/ SelectReport \/ GenerateOverview

\* the page with the Overview, for every kind of cancellation
SpecTally == InitTally /\ [][NextTally]_vars

\* Extracts for the Teacher Performance counters: private and group sessions
\* of teacher t1, remaining or cancelled by each kind of actor, among them a
\* private session without student rows and a teacher who is also a student
PerformanceVariants ==
    { [seats |-> "1", end |-> T1100, by |-> "", teacher |-> <<"t1", "ontime">>, students |-> <<"attended">>],
      [seats |-> "1", end |-> T1100, by |-> "", teacher |-> <<"t1", "ontime">>, students |-> <<"absent">>],
      [seats |-> "1", end |-> T1100, by |-> "", teacher |-> <<"t1", "absent">>, students |-> <<"absent">>],
      [seats |-> "1", end |-> T1100, by |-> "", teacher |-> <<"t1", "late">>, students |-> <<>>],
      [seats |-> "1", end |-> T1100, by |-> "u1", teacher |-> <<"t1", "ontime">>, students |-> <<"late">>],
      [seats |-> "1", end |-> T1100, by |-> "t1", teacher |-> <<"t1", "ontime">>, students |-> <<"absent">>],
      [seats |-> "1", end |-> T1100, by |-> "adm", teacher |-> <<"t1", "absent">>, students |-> <<"absent">>],
      [seats |-> "1", end |-> T1100, by |-> "u1", teacher |-> <<"u1", "ontime">>, students |-> <<"late">>],
      [seats |-> "5", end |-> T1100, by |-> "", teacher |-> <<"t1", "ontime">>, students |-> <<"attended", "absent">>],
      [seats |-> "5", end |-> T1100, by |-> "u2", teacher |-> <<"t1", "ontime">>, students |-> <<"attended", "late">>],
      [seats |-> "5", end |-> T1100, by |-> "t1", teacher |-> <<"t1", "absent">>, students |-> <<"absent">>],
      [seats |-> "5", end |-> T1100, by |-> "adm", teacher |-> <<"t1", "ontime">>, students |-> <<"absent", "absent">>] }

MaxPerformanceSessions == 2

PerformanceInputs ==
    { << [k \in 1..Len(vs) |-> VariantClassRow(vs[k], k)],
         Concat([k \in 1..Len(vs) |-> VariantPartRows(vs[k], k)]) >> :
        vs \in SeqsUpTo(PerformanceVariants, 1, MaxPerformanceSessions) }

InitPerformance ==
    /\ \E in \in PerformanceInputs :
          classesFile = in[1] /\ participantsFile = in[2]
    /\ PageLoaded

\* the page with the teacher reports, for every kind of cancellation
SpecPerformance == InitPerformance /\ [][NextTeacher]_vars

\* Extracts for the private averages.  A variant is a session: seats, start,
\* cancellation actor, teacher (name, kind) or none, and its students
\* (username, kind, whether the row has an enrolment timestamp).
AverageVariants ==
    { [seats |-> "1", start |-> T1000, by |-> "", teacher |-> <<"t1", "ontime">>,
       students |-> << <<"u1", "attended", TRUE>> >>],
      [seats |-> "1", start |-> T1100, by |-> "u2", teacher |-> <<"t2", "late">>,
       students |-> << <<"u2", "late", TRUE>> >>],
      [seats |-> "1", start |-> T0800, by |-> "", teacher |-> <<"t1", "absent">>,
       students |-> << <<"u1", "absent", TRUE>> >>],
      [seats |-> "1", start |-> T1000, by |-> "adm", teacher |-> <<"t2", "ontime">>,
       students |-> << <<"u3", "absent", FALSE>> >>],
      [seats |-> "5", start |-> T1000, by |-> "u1", teacher |-> <<"t3", "ontime">>,
       students |-> << <<"u1", "late", TRUE>>, <<"u2", "attended", FALSE>> >>],
      [seats |-> "1", start |-> T1000, by |-> "", teacher |-> <<>>,
       students |-> << <<"u2", "attended", TRUE>> >>] }

MaxAverageSessions == 3

AverageClassRow(v, k) ==
    ClassRow(v.start, T1230, v.seats, SlugAt(k), v.by, IF v.by = "" THEN "" ELSE T0900)

AveragePartRows(v, k) ==
    (IF v.teacher = <<>> THEN <<>>
     ELSE <<TeacherRow(SlugAt(k), v.teacher[1], v.teacher[2])>>)
    \o [j \in 1..Len(v.students) |->
           [ StudentRow(SlugAt(k), v.students[j][1], v.students[j][2])
               EXCEPT !.enrolledAt = IF v.students[j][3] THEN @ ELSE "" ]]

AverageInputs ==
    { << [k \in 1..Len(vs) |-> AverageClassRow(vs[k], k)],
         Concat([k \in 1..Len(vs) |-> AveragePartRows(vs[k], k)]) >> :
        vs \in SeqsUpTo(AverageVariants, 1, MaxAverageSessions) }

InitAverages ==
    /\ \E in \in AverageInputs :
          classesFile = in[1] /\ participantsFile = in[2]
    /\ PageLoaded

\* the page with the Overview, for the private averages
SpecAverages == InitAverages /\ [][NextTally]_vars

\* Extracts for the page with every report: the course extracts of up to
\* MaxPageSessions sessions, in every order of start, and the one-session
\* extracts with feedback, ratings and enrolment timestamps
MaxPageSessions == 2

PageInputs ==
    { in \in CourseInputs : Len(in[1]) <= MaxPageSessions }
        \cup { in \in FeedbackInputs \cup EnrolmentInputs : Len(in[1]) = 1 }

InitPage ==
    /\ \E in \in PageInputs :
          classesFile = in[1] /\ participantsFile = in[2]
    /\ PageLoaded

NextPage ==
    \/ Upload \/ NewUpload \/ SelectReport
    \/ GenerateHourCount \/ GenerateOverview \/ GenerateTeacherReport
    \/ GenerateCourseReport \/ GenerateStudentReport

\* the page with every report: upload, generate reports in any order, reload
SpecPage == InitPage /\ [][NextPage]_vars

InitNorm ==
    /\ \E in \in TimeInputs \cup RoleInputs \cup IdInputs :
          classesFile = in[1] /\ participantsFile = in[2]
    /\ PageLoaded

NextNorm == Upload \/ NewUpload

\* the normalizer alone: upload, reload, upload again
SpecNorm == InitNorm /\ [][NextNorm]_vars

-----------------------------------------------------------------------------
(* Properties of the normalized model *)

Loaded == panel # "fileUploadPanel"

\* the teacher (if any) and the students of a class, as one sequence
participantsOf(cls) == cls.teacher \o cls.students

\* the class row a session was built from: the last one with its slug
sourceRowOf(cls) ==
    CHOOSE i \in 1..Len(classesFile) :
        /\ classesFile[i].slug = cls.slug
        /\ \A j \in (i + 1)..Len(classesFile) : classesFile[j].slug # cls.slug

Unparseable(ts) == ~Falsy(ts) /\ IsNaN(DateSeconds(ts))

\* C1: for every session and every participant of it (teacher and students)
\* the stored tardiness is a number with -3600 <= tardiness <= the session's
\* scheduledDuration, whatever the four timestamps are.
C1_TardinessWithinClamp ==
    \A k \in 1..Len(data) : \A j \in 1..Len(participantsOf(data[k])) :
        LET t == participantsOf(data[k])[j].tardiness
            d == data[k].scheduledDuration
        IN ~IsNaN(t) /\ ~IsNaN(d) /\ MIN <= t /\ t <= d

\* C2: a session with a non-empty cancelledBy has exactly one of the three
\* attribution flags set; a session with an empty cancelledBy has none.
FlagCount(cls) ==
    Cardinality({f \in {"s", "t", "a"} :
        \/ f = "s" /\ cls.cancelledByStudent
        \/ f = "t" /\ cls.cancelledByTeacher
        \/ f = "a" /\ cls.cancelledByAdmin})

C2_ExactlyOneAttribution ==
    \A k \in 1..Len(data) :
        FlagCount(data[k]) = (IF data[k].cancelledBy # "" THEN 1 ELSE 0)

\* how often extract row i appears in the class, as teacher or as student
Occurrences(cls, i) ==
    Cardinality({j \in 1..Len(participantsOf(cls)) : participantsOf(cls)[j].row = i})

\* C8 as stated: every participant row of the session's id appears in the
\* session exactly once, as the teacher if it carries the marker and as a
\* student otherwise; at most one teacher; students in extract order.
C8_EveryRowExactlyOnce ==
    \A k \in 1..Len(data) :
        /\ Len(data[k].teacher) <= 1
        /\ \A i \in 1..Len(participantsFile) :
              participantsFile[i].slug = data[k].slug =>
                 /\ Occurrences(data[k], i) = 1
                 /\ isTeacherRow(participantsFile[i]) <=>
                       (data[k].teacher # <<>> /\ data[k].teacher[1].row = i)
        /\ \A a, b \in 1..Len(data[k].students) :
              a < b => data[k].students[a].row < data[k].students[b].row

\* C8 amended: the unmarked rows of the session's id are its students, each
\* exactly once and in extract order; the first marked row is the teacher; a
\* further marked row of the same id appears nowhere in the session; rows of
\* another id appear nowhere in it.
C8_PartitionFirstTeacherWins ==
    \A k \in 1..Len(data) :
        LET cls == data[k]
            mine(i) == participantsFile[i].slug = cls.slug
            marked(i) == isTeacherRow(participantsFile[i])
            firstMarked(i) == mine(i) /\ marked(i) /\
                              \A h \in 1..(i - 1) : ~(mine(h) /\ marked(h))
        IN /\ Len(cls.teacher) <= 1
           /\ \A i \in 1..Len(participantsFile) :
                 /\ Cardinality({j \in 1..Len(cls.students) : cls.students[j].row = i})
                       = (IF mine(i) /\ ~marked(i) THEN 1 ELSE 0)
                 /\ (cls.teacher # <<>> /\ cls.teacher[1].row = i) <=> firstMarked(i)
           /\ \A j \in 1..Len(cls.students) :
                 /\ cls.students[j].row \in 1..Len(participantsFile)
                 /\ cls.students[j].username =
                       participantsFile[cls.students[j].row].username
           /\ \A a, b \in 1..Len(cls.students) :
                 a < b => cls.students[a].row < cls.students[b].row

\* a processed session with two teacher-marked rows and a student
C8_Witness_TwoMarkedRows ==
    /\ Loaded
    /\ \E k \in 1..Len(data) :
          /\ data[k].teacher # <<>>
          /\ data[k].students # <<>>
          /\ \E i \in 1..Len(participantsFile) :
                /\ participantsFile[i].slug = data[k].slug
                /\ isTeacherRow(participantsFile[i])
                /\ i > data[k].teacher[1].row

\* C9: an interval field is blank or computed from two present timestamps:
\* a non-blank value never comes with a missing endpoint.
C9_NoIntervalFromMissingEndpoint ==
    \A k \in 1..Len(data) :
        /\ data[k].cancelledInterval # Blank =>
              ~Falsy(data[k].cancelledTime) /\ ~Falsy(data[k].scheduledStart)
        /\ \A j \in 1..Len(data[k].students) :
              LET st == data[k].students[j] IN
              /\ st.cancelledInterval # Blank =>
                    ~Falsy(st.cancelledTime) /\ ~Falsy(data[k].scheduledStart)
              /\ st.enrolmentInterval # Blank =>
                    ~Falsy(st.enrolledTime) /\ ~Falsy(data[k].scheduledStart)

\* C10: scheduledDuration is 0 for every class row whose start or end
\* timestamp is missing or unparseable (timestampDiff returns 0 there).
C10_ZeroDurationWhenTimestampUnusable ==
    \A k \in 1..Len(data) :
        LET cs == classesFile[sourceRowOf(data[k])] IN
        (Falsy(cs.start) \/ Falsy(cs.end) \/ Unparseable(cs.start) \/ Unparseable(cs.end))
            => data[k].scheduledDuration = 0

\* the last class row that carries the id
LastRowOf(slug) ==
    CHOOSE i \in 1..Len(classesFile) :
        /\ classesFile[i].slug = slug
        /\ \A j \in (i + 1)..Len(classesFile) : classesFile[j].slug # slug

\* C11: the model holds exactly one session for each distinct non-empty id
\* of the class rows, none for a row with an empty id, and the session of an
\* id is the one built from the last class row with that id alone.
C11_OneSessionPerIdLastRowWins ==
    Loaded =>
        /\ {data[k].slug : k \in 1..Len(data)}
              = {classesFile[i].slug : i \in 1..Len(classesFile)} \ {""}
        /\ \A k1, k2 \in 1..Len(data) : data[k1].slug = data[k2].slug => k1 = k2
        /\ \A k \in 1..Len(data) :
              data[k] = classOf(classesFile[LastRowOf(data[k].slug)], participantsFile)

\* an id given by two class rows with different fields, between them or
\* after them a row without id
C11_Witness_DuplicateAndEmptyId ==
    /\ Loaded
    /\ \E i, j \in 1..Len(classesFile) :
          /\ i < j
          /\ classesFile[i].slug = classesFile[j].slug
          /\ classesFile[i].slug # ""
          /\ classOf(classesFile[i], participantsFile)
                # classOf(classesFile[j], participantsFile)
    /\ \E i \in 1..Len(classesFile) : classesFile[i].slug = ""

-----------------------------------------------------------------------------
(* Properties of the Compensation report *)

HourCountShown == report.kind = "hourCount"

\* the layout of a row: per type, the columns of each duration, then two totals
ShownDurations == SortAsc({durationMinOf(report.filteredData[k]) : k \in 1..Len(report.filteredData)})
ShownTypes == typesOf(report.settings)
DetailedWidth(type) == IF type = "private" THEN 6 ELSE 5
DetailedOffset(ti) == SumTo(ti - 1, [j \in 1..(ti - 1) |-> DetailedWidth(ShownTypes[j]) * Len(ShownDurations) + 2])
SimpleOffset(ti) == (ti - 1) * (Len(ShownDurations) + 2)
ColumnAt(type, col) ==
    CASE col = "attended" -> 1
      [] col = "cancelled" -> 2
      [] col = "noShow" -> IF type = "private" THEN 3 ELSE 2
      [] col = "studentNoShow" -> IF type = "private" THEN 4 ELSE 3
      [] col = "late" -> IF type = "private" THEN 5 ELSE 4
      [] col = "netCount" -> IF type = "private" THEN 6 ELSE 5

\* the cell of row r, type number ti, duration number k in the detailed output
DetailedCell(r, ti, k, col) ==
    report.detailed.rows[r].cells[DetailedOffset(ti) + (k - 1) * DetailedWidth(ShownTypes[ti]) + ColumnAt(ShownTypes[ti], col)]

\* the netCount of the same bucket in the simplified output
SimpleCell(r, ti, k) == report.simple.rows[r].cells[SimpleOffset(ti) + k]

\* the classes handed to the builder that fall in the bucket of row r
InBucket(r, ti, k) ==
    { i \in 1..Len(report.filteredData) :
        /\ teacherUsername(report.filteredData[i]) = report.detailed.rows[r].teacher
        /\ classTypeOf(report.filteredData[i]) = ShownTypes[ti]
        /\ durationMinOf(report.filteredData[i]) = ShownDurations[k] }

Buckets ==
    { b \in (1..Len(report.detailed.rows)) \X (1..Len(ShownTypes)) \X (1..Len(ShownDurations)) : TRUE }

PrivateBuckets == { b \in Buckets : ShownTypes[b[2]] = "private" }

\* C3: a private session adds at most 1 to the cancelled credit of its
\* bucket: the credit of a bucket is the number of its sessions that have a
\* qualifying student (0 when payLastMinuteCancellation is off).
C3_CreditAtMostOncePerSession ==
    HourCountShown =>
        \A b \in PrivateBuckets :
            DetailedCell(b[1], b[2], b[3], "cancelled") =
                Cardinality({ i \in InBucket(b[1], b[2], b[3]) :
                    /\ report.settings.payLastMinuteCancellation
                    /\ \E j \in 1..Len(report.filteredData[i].students) :
                          lateCancellation(report.filteredData[i],
                                           report.filteredData[i].students[j],
                                           report.settings) })

\* the condition C4 states for a session: some student cancelled, not by the
\* teacher, with a stored cancellation interval below the window
CreditDue(cls, settings) ==
    /\ settings.payLastMinuteCancellation
    /\ \E j \in 1..Len(cls.students) :
          /\ cls.students[j].cancelled
          /\ cls.students[j].cancelledBy # teacherUsername(cls)
          /\ cls.students[j].cancelledInterval # Blank
          /\ JsLt(cls.students[j].cancelledInterval[1], 100 * settings.cancellationWindow)

\* C4: a private bucket holds a cancelled credit iff one of its sessions has
\* a student who cancelled, not through the teacher, less than
\* cancellationWindow hours before the start (by the stored interval); no
\* credit for an earlier cancellation or one without a timestamp.
C4_CreditIffCancelledWithinWindow ==
    HourCountShown =>
        \A b \in PrivateBuckets :
            (DetailedCell(b[1], b[2], b[3], "cancelled") > 0)
                <=> \E i \in InBucket(b[1], b[2], b[3]) :
                        CreditDue(report.filteredData[i], report.settings)

\* attended - late (if penalised) + credit (if private and paid)
\* - studentNoShow * (1 - rate/100 if paid, else 1), in thousandths, from the
\* counters the detailed output shows
ExactNet(b) ==
    LET type == ShownTypes[b[2]]
        st == report.settings
        frac == IF st.payStudentNoShow THEN st.studentNoShowRate ELSE 0
    IN 1000 * ( DetailedCell(b[1], b[2], b[3], "attended")
                - (IF st.penaliseTardiness THEN DetailedCell(b[1], b[2], b[3], "late") ELSE 0)
                + (IF type = "private" /\ st.payLastMinuteCancellation
                   THEN DetailedCell(b[1], b[2], b[3], "cancelled") ELSE 0) )
       - DetailedCell(b[1], b[2], b[3], "studentNoShow") * (1000 - frac)

\* C5: the netCount of every bucket is the value of the formula rounded to
\* 2 decimal places (the nearest hundredth), and the simplified output
\* carries the same value.
C5_NetCountFormula ==
    HourCountShown =>
        \A b \in Buckets :
            LET net == DetailedCell(b[1], b[2], b[3], "netCount") IN
            /\ JsAbs(10 * net - ExactNet(b)) <= 5
            /\ SimpleCell(b[1], b[2], b[3]) = net

\* a private bucket with an attended, late teacher, a credit and a student
\* no-show, every policy on, where the rounding changes the value, next to a
\* group bucket whose exact value is negative and not a whole hundredth
C5_Witness_AllTermsAndRounding ==
    /\ HourCountShown
    /\ report.settings.penaliseTardiness
    /\ report.settings.payLastMinuteCancellation
    /\ report.settings.payStudentNoShow
    /\ \E b \in PrivateBuckets :
          /\ DetailedCell(b[1], b[2], b[3], "attended") > 0
          /\ DetailedCell(b[1], b[2], b[3], "late") > 0
          /\ DetailedCell(b[1], b[2], b[3], "cancelled") > 0
          /\ DetailedCell(b[1], b[2], b[3], "studentNoShow") > 0
          /\ ExactNet(b) % 10 # 0
    /\ \E b \in Buckets \ PrivateBuckets :
          /\ ExactNet(b) < 0
          /\ ExactNet(b) % 10 # 0

\* C27: the two copies of the Compensation builder (src/main.js and
\* src/unnamed/part_000) return the same header and the same rows for every
\* normalized model, every settings object and both output modes.
C27_BothBuildersAgree ==
    HourCountShown =>
        /\ report.detailed =
               buildTeacherHourCountCSV_part000(report.filteredData, report.settings, FALSE)
        /\ report.simple =
               buildTeacherHourCountCSV_part000(report.filteredData, report.settings, TRUE)

\* What holds of the two copies: the same header, the same teachers, and
\* the same cells whenever the cancellation credit is not paid.
BuildersAgreeWithoutCredit ==
    HourCountShown =>
        LET other == buildTeacherHourCountCSV_part000(report.filteredData,
                                                      report.settings, FALSE)
        IN /\ report.detailed.header = other.header
           /\ Len(report.detailed.rows) = Len(other.rows)
           /\ \A r \in 1..Len(other.rows) :
                 report.detailed.rows[r].teacher = other.rows[r].teacher
           /\ ~report.settings.payLastMinuteCancellation => report.detailed = other

\* the sessions of a bucket of a penalising report whose teacher attended
\* and was more than tardinessLimit minutes late, by the exact or by the
\* rounded minutes
LateIn(b, rounded) ==
    { i \in InBucket(b[1], b[2], b[3]) :
        /\ report.settings.penaliseTardiness
        /\ teacherAttendedOf(report.filteredData[i])
        /\ IF rounded
           THEN JsGt(RoundDiv(teacherTardinessOf(report.filteredData[i]), 60),
                     report.settings.tardinessLimit)
           ELSE JsGt(teacherTardinessOf(report.filteredData[i]),
                     60 * report.settings.tardinessLimit) }

\* C21 as stated: the late count of a bucket is the number of its sessions
\* where penaliseTardiness is on, the teacher attended and the teacher's
\* tardiness in minutes (seconds / 60) exceeds tardinessLimit; with
\* penaliseTardiness off the count is 0.
C21_LateWhenMinutesExceedLimit ==
    HourCountShown =>
        \A b \in Buckets :
            /\ DetailedCell(b[1], b[2], b[3], "late") =
                   Cardinality(LateIn(b, FALSE))
            /\ ~report.settings.penaliseTardiness =>
                   DetailedCell(b[1], b[2], b[3], "late") = 0

\* What holds instead: the late count of a bucket is the number of its
\* sessions where penaliseTardiness is on, the teacher attended and the
\* teacher's tardiness rounded to the nearest whole minute exceeds
\* tardinessLimit; with penaliseTardiness off the count is 0 and the
\* netCount is the formula without the late term.
LateCountByRoundedMinutes ==
    HourCountShown =>
        \A b \in Buckets :
            /\ DetailedCell(b[1], b[2], b[3], "late") =
                   Cardinality(LateIn(b, TRUE))
            /\ ~report.settings.penaliseTardiness =>
                   /\ DetailedCell(b[1], b[2], b[3], "late") = 0
                   /\ 10 * DetailedCell(b[1], b[2], b[3], "netCount") = ExactNet(b)

\* C6: the studentNoShow of a bucket counts exactly its sessions where the
\* teacher attended, the session's cancellation actor is empty, there is a
\* student and every student is absent.
C6_StudentNoShowOnlyIfNotCancelled ==
    HourCountShown =>
        \A b \in Buckets :
            DetailedCell(b[1], b[2], b[3], "studentNoShow") =
                Cardinality({ i \in InBucket(b[1], b[2], b[3]) :
                    /\ teacherAttendedOf(report.filteredData[i])
                    /\ Falsy(report.filteredData[i].cancelledBy)
                    /\ allStudentsAbsent(report.filteredData[i]) })

RemoveAt(seq, i) == [j \in 1..(Len(seq) - 1) |-> IF j < i THEN seq[j] ELSE seq[j + 1]]

ZeroTally ==
    [ total |-> 0, completed |-> 0, cancelled |-> 0, cancelledByStudent |-> 0,
      cancelledByTeacher |-> 0, cancelledByAdmin |-> 0, studentCancelledLate |-> 0,
      teacherNoShow |-> 0, studentNoShow |-> 0, bothNoShow |-> 0 ]

TallyAt(tallies, type, d) ==
    LET t == IF type = "private" THEN tallies.privateData ELSE tallies.groupData
    IN IF d \in DOMAIN t THEN t[d] ELSE ZeroTally

\* C7: a session without a teacher leaves no trace in the Compensation
\* report (both outputs equal those built without the session), and the
\* Overview counts it with the teacher absent: in total, never in completed,
\* in teacherNoShow when it is not cancelled.
C7_TeacherlessSessionExcluded ==
    /\ HourCountShown =>
          \A i \in 1..Len(report.filteredData) :
              report.filteredData[i].teacher = <<>> =>
                 /\ report.detailed = buildTeacherHourCountCSV(
                        RemoveAt(report.filteredData, i), report.settings, FALSE)
                 /\ report.simple = buildTeacherHourCountCSV(
                        RemoveAt(report.filteredData, i), report.settings, TRUE)
    /\ report.kind = "overview" =>
          \A i \in 1..Len(data) :
              data[i].teacher = <<>> =>
                 LET without == buildOverviewData(RemoveAt(data, i), report.cancellationWindow)
                     type == classTypeOf(data[i])
                     d == durationMinOf(data[i])
                     with == TallyAt(report.tallies, type, d)
                     wo == TallyAt(without, type, d)
                 IN /\ with.total = wo.total + 1
                    /\ with.completed = wo.completed
                    /\ with.teacherNoShow =
                          wo.teacherNoShow + (IF Falsy(data[i].cancelledBy) THEN 1 ELSE 0)

\* the two totals that close the columns of type number ti in row r
TotalCells(r, ti) ==
    LET at == DetailedOffset(ti) + DetailedWidth(ShownTypes[ti]) * Len(ShownDurations)
    IN <<report.detailed.rows[r].cells[at + 1], report.detailed.rows[r].cells[at + 2]>>

SimpleTotalCells(rows, r, ti, nDurations) ==
    LET at == (ti - 1) * (nDurations + 2) + nDurations
    IN <<rows[r].cells[at + 1], rows[r].cells[at + 2]>>

\* the classes handed to the builder whose type the filter selects
OfShownTypes ==
    SelectSeq(report.filteredData, LAMBDA cls : classTypeOf(cls) \in Range(ShownTypes))

-----------------------------------------------------------------------------
(* Properties of the Overview tallies *)

OverviewShown == report.kind = "overview"

\* C13: every session is counted in the total of exactly one bucket: the
\* bucket of its rounded duration and of its type, private when the seat
\* capacity is 1 and group for any other value.
C13_OverviewPartitionsSessions ==
    OverviewShown =>
        \A type \in {"private", "group"} :
            \A d \in {durationMinOf(data[k]) : k \in 1..Len(data)} :
                TallyAt(report.tallies, type, d).total =
                    Cardinality({k \in 1..Len(data) :
                        classTypeOf(data[k]) = type /\ durationMinOf(data[k]) = d})

\* the buckets of a type in the tallies on screen
TallyBuckets(type) ==
    DOMAIN (IF type = "private" THEN report.tallies.privateData
            ELSE report.tallies.groupData)

\* the sessions of the model tallied in the bucket of a type and duration:
\* seat capacity 1 for private, above 1 for group
Tallied(type, d) ==
    { k \in 1..Len(data) :
        /\ durationMinOf(data[k]) = d
        /\ IF type = "private" THEN data[k].available_seats = 1
           ELSE ~IsNaN(data[k].available_seats) /\ data[k].available_seats > 1 }

\* the session has a student and none of its students attended
AllAbsent(k) ==
    /\ data[k].students # <<>>
    /\ \A j \in 1..Len(data[k].students) : ~data[k].students[j].attended

TeacherCame(k) == data[k].teacher # <<>> /\ data[k].teacher[1].attended

C28_OverviewCountersAccountOnce ==
    OverviewShown =>
        \A type \in {"private", "group"} : \A d \in TallyBuckets(type) :
            LET b == TallyAt(report.tallies, type, d) IN
            /\ b.total = b.completed + b.teacherNoShow + b.cancelledByStudent
                            + b.cancelledByTeacher + b.cancelledByAdmin
            /\ b.cancelled = b.cancelledByStudent + b.cancelledByTeacher
                                + b.cancelledByAdmin

\* What holds instead: every session is completed, a teacher no-show or
\* cancelled, and every cancelled session is counted under at least one
\* attribution.
OverviewTotalByCancelled ==
    OverviewShown =>
        \A type \in {"private", "group"} : \A d \in TallyBuckets(type) :
            LET b == TallyAt(report.tallies, type, d) IN
            /\ b.total = b.completed + b.teacherNoShow + b.cancelled
            /\ b.cancelled <= b.cancelledByStudent + b.cancelledByTeacher
                                 + b.cancelledByAdmin

\* the (session, student position) pairs of the model
AllParticipationsOfModel ==
    UNION { {<<k, j>> : j \in 1..Len(data[k].students)} : k \in 1..Len(data) }

\* the mean, over the entries that have an observation of a metric, of the
\* entry's own mean of the metric (0 when no entry has one)
ObserversMean(values, numKey, denomKey, unit) ==
    LET seen == SelectSeq(values, LAMBDA v : v[denomKey] # 0) IN
    IF seen = <<>> THEN 0
    ELSE meanOfRatios([i \in 1..Len(seen) |-> seen[i][numKey]],
                      [i \in 1..Len(seen) |-> seen[i][denomKey]],
                      unit, Len(seen))

\* the student entries (session, position) of the private sessions, and
\* the private sessions of a teacher
PrivateEntriesOf(u) ==
    { p \in AllParticipationsOfModel :
        data[p[1]].available_seats = 1 /\ data[p[1]].students[p[2]].username = u }

PrivateStudents ==
    { data[p[1]].students[p[2]].username : p \in
        { q \in AllParticipationsOfModel : data[q[1]].available_seats = 1 } } \ {""}

PrivateTeachers ==
    { teacherUsername(data[k]) : k \in
        { i \in 1..Len(data) : data[i].available_seats = 1 } } \ {"", Undefined}

\* C26: only sessions with seat capacity 1 contribute to the averages
\* table, and each cell is a mean of per-entity values: the Average Classes
\* cell is the mean number of private sessions per entity, and for the
\* interval and tardiness metrics the value of an entity is its own mean
\* over its observations, an entity without observation being left out of
\* the average.
C26_AveragesAreMeansOfObservers ==
    OverviewShown =>
        LET S == studentStatsOf(data)
            T == teacherStatsOf(data)
            a == report.averages
        IN /\ { S[i].key : i \in 1..Len(S) } = PrivateStudents
           /\ { T[i].key : i \in 1..Len(T) } = PrivateTeachers
           /\ \A i \in 1..Len(S) : S[i].total = Cardinality(PrivateEntriesOf(S[i].key))
           /\ \A i \in 1..Len(T) :
                 T[i].total = Cardinality({ k \in 1..Len(data) :
                     data[k].available_seats = 1 /\ teacherUsername(data[k]) = T[i].key })
           /\ a.students.total = avg(S, "total")
           /\ a.teachers.total = avg(T, "total")
           /\ a.students.cancellationInterval =
                 ObserversMean(S, "cancelledIntervalSum", "cancelledIntervalCount", 100)
           /\ a.students.enrolmentInterval =
                 ObserversMean(S, "enrolIntervalSum", "enrolIntervalCount", 100)
           /\ a.students.tardiness = ObserversMean(S, "tardinessSum", "tardinessCount", 60)
           /\ a.teachers.cancellationInterval =
                 ObserversMean(T, "cancelledIntervalSum", "cancelledIntervalCount", 100)
           /\ a.teachers.tardiness = ObserversMean(T, "tardinessSum", "tardinessCount", 60)

\* What holds of the same cells: only private sessions contribute, and the
\* Average Classes and tardiness cells, where every entity has an
\* observation, are means of the per-entity values.
AveragesOfPrivateSessions ==
    OverviewShown =>
        LET S == studentStatsOf(data)
            T == teacherStatsOf(data)
            a == report.averages
        IN /\ { S[i].key : i \in 1..Len(S) } = PrivateStudents
           /\ { T[i].key : i \in 1..Len(T) } = PrivateTeachers
           /\ \A i \in 1..Len(S) : S[i].total = Cardinality(PrivateEntriesOf(S[i].key))
           /\ a.students.total = avg(S, "total")
           /\ a.teachers.total = avg(T, "total")
           /\ a.students.tardiness = ObserversMean(S, "tardinessSum", "tardinessCount", 60)
           /\ a.teachers.tardiness = ObserversMean(T, "tardinessSum", "tardinessCount", 60)

-----------------------------------------------------------------------------
(* Properties of the course reports *)

AllCoursesShown == report.kind = "allCourses"
CourseDetailShown == report.kind = "courseDetail"

\* the sessions of the model that belong to a course group, in model order
SessionsOf(courseId) == {k \in 1..Len(data) : courseKeyOf(data[k]) = courseId}

\* the (session, student position) pairs of a course group
ParticipationsOf(courseId) ==
    UNION { {<<k, j>> : j \in 1..Len(data[k].students)} : k \in SessionsOf(courseId) }

RateInRange(rate, denominator, top) ==
    IF denominator = 0 THEN rate = Blank
    ELSE rate # Blank /\ ~IsNaN(rate[1]) /\ rate[1] >= 0 /\ rate[1] <= top

\* C12: every attendance rate of the course overview and of the info row is
\* blank when the course has no participation and a number from 0 to 100
\* otherwise; every rate of the per-student summary belongs to a student with
\* at least one enrolment and is a number from 0 to 100 percent.
C12_AttendanceRatesInRange ==
    /\ AllCoursesShown =>
          \A r \in 1..Len(report.rows) :
              RateInRange(report.rows[r].rate,
                          Cardinality(ParticipationsOf(report.rows[r].courseId)), 100)
    /\ CourseDetailShown =>
          /\ \A r \in 1..Len(report.detail.info) :
                RateInRange(report.detail.info[r].rate,
                            Cardinality(ParticipationsOf(report.courseId)), 100)
          /\ \A r \in 1..Len(report.studentOverview) :
                /\ report.studentOverview[r].enrolled > 0
                /\ RateInRange(<<report.studentOverview[r].rate>>,
                               report.studentOverview[r].enrolled, 10000)

\* an overview with a course without participations next to a course whose
\* rate is neither 0 nor 100
C12_Witness_BlankAndFractionalRate ==
    /\ AllCoursesShown
    /\ \E r \in 1..Len(report.rows) : report.rows[r].rate = Blank
    /\ \E r \in 1..Len(report.rows) :
          /\ report.rows[r].rate # Blank
          /\ report.rows[r].rate[1] \in 1..99

\* the sessions of a course group that no other session of it precedes
EarliestOf(courseId) ==
    { k \in SessionsOf(courseId) :
        \A m \in SessionsOf(courseId) : ~startsAfter(data[k], data[m]) }

\* a course row shows the level, subject, description and seat capacity of
\* an earliest session of its course
ShowsEarliest(row) ==
    \E k \in EarliestOf(row.courseId) :
        /\ row.level = data[k].level
        /\ row.subject = data[k].subject
        /\ row.description = data[k].description
        /\ row.seats = IF IsNaN(data[k].available_seats) THEN Blank
                       ELSE <<data[k].available_seats>>

\* C18: in the cross-course overview and in the info row of a course, the
\* level, subject and description columns are those of the chronologically
\* earliest session of the course, and the seats column is that session's
\* seat capacity.
C18_CourseColumnsFromEarliestSession ==
    /\ AllCoursesShown => \A r \in 1..Len(report.rows) : ShowsEarliest(report.rows[r])
    /\ CourseDetailShown =>
          \A r \in 1..Len(report.detail.info) : ShowsEarliest(report.detail.info[r])

\* the usernames of the participations of a course group
UsernamesOf(courseId) ==
    { data[p[1]].students[p[2]].username : p \in ParticipationsOf(courseId) }

AttendedOf(courseId) ==
    { p \in ParticipationsOf(courseId) : data[p[1]].students[p[2]].attended }

\* the course group of a session: its course id, or the sentinel
GroupOf(k) == IF data[k].course_id \in {"", Undefined} THEN "NO_ID" ELSE data[k].course_id

\* C19: in the cross-course overview every session is counted in exactly
\* one course row, the row of its course id or the sentinel row when it has
\* none; the students-enrolled value of a row is the number of distinct
\* usernames over the sessions of the course, and its attendance rate is
\* round(100 * attended participations / total participations), blank when
\* the course has no participation.
C19_CourseEnrolmentAndRate ==
    AllCoursesShown =>
        /\ \A k \in 1..Len(data) :
              Cardinality({ r \in 1..Len(report.rows) :
                              report.rows[r].courseId = GroupOf(k) }) = 1
        /\ \A r \in 1..Len(report.rows) :
              LET id == report.rows[r].courseId
                  total == Cardinality(ParticipationsOf(id))
              IN /\ report.rows[r].classCount =
                        Cardinality({ k \in 1..Len(data) : GroupOf(k) = id })
                 /\ report.rows[r].classCount > 0
                 /\ report.rows[r].enrolled = Cardinality(UsernamesOf(id))
                 /\ report.rows[r].rate =
                        IF total = 0 THEN Blank
                        ELSE <<RoundDiv(100 * Cardinality(AttendedOf(id)), total)>>

\* an overview with the sentinel row next to a course whose student is
\* enrolled in two of its sessions
C19_Witness_RepeatedStudentAndSentinel ==
    /\ AllCoursesShown
    /\ \E r \in 1..Len(report.rows) : report.rows[r].courseId = "NO_ID"
    /\ \E r \in 1..Len(report.rows) :
          /\ report.rows[r].courseId # "NO_ID"
          /\ report.rows[r].classCount > 1
          /\ report.rows[r].enrolled > 0
          /\ report.rows[r].enrolled < Cardinality(ParticipationsOf(report.rows[r].courseId))

\* the session of the model that a row of the matrix is printed for
SessionOfRow(row) == CHOOSE k \in 1..Len(data) : data[k].slug = row.slug

\* the positions of a student among the students of a session
EntriesOf(k, username) ==
    {j \in 1..Len(data[k].students) : data[k].students[j].username = username}

\* the word for the cancelled and attended flags of a participation
StatusOf(s) ==
    CASE s.cancelled -> "cancelled"
      [] ~s.cancelled /\ s.attended -> "attended"
      [] OTHER -> "no show"

\* C24: in the session x student matrix of a course the cell of a session
\* and a student is blank iff the student has no participation in that
\* session, and otherwise is the one of cancelled, attended, no show that
\* the flags of the participation (the first, when the student is listed
\* twice) say; the status of the row is cancelled iff the session has a
\* cancellation attribution, and completed otherwise.
C24_MatrixCellsAndRowStatus ==
    CourseDetailShown =>
        \A r \in 1..Len(report.detail.classList) :
            LET row == report.detail.classList[r]
                k == SessionOfRow(row)
                cls == data[k]
            IN /\ courseKeyOf(cls) = report.courseId
               /\ row.status \in {"cancelled", "completed"}
               /\ row.status = "cancelled" <=>
                      \/ cls.cancelledByStudent
                      \/ cls.cancelledByTeacher
                      \/ cls.cancelledByAdmin
               /\ Len(row.cells) = Len(report.detail.uniqueStudents)
               /\ \A u \in 1..Len(row.cells) :
                     LET mine == EntriesOf(k, report.detail.uniqueStudents[u])
                         first == CHOOSE j \in mine : \A i \in mine : j <= i
                     IN /\ row.cells[u] = "" <=> mine = {}
                        /\ mine # {} => row.cells[u] = StatusOf(cls.students[first])

\* a matrix with a blank cell, a cell of each word, among them the cell of
\* a participation marked cancelled and attended, and a cancelled row
C24_Witness_EveryKindOfCell ==
    /\ CourseDetailShown
    /\ \E r \in 1..Len(report.detail.classList) :
          report.detail.classList[r].status = "cancelled"
    /\ \A w \in {"", "attended", "no show"} :
          \E r \in 1..Len(report.detail.classList) :
              w \in Range(report.detail.classList[r].cells)
    /\ \E r \in 1..Len(report.detail.classList) :
          LET row == report.detail.classList[r]
              k == SessionOfRow(row)
          IN \E u \in 1..Len(row.cells) :
                /\ row.cells[u] = "cancelled"
                /\ \E j \in EntriesOf(k, report.detail.uniqueStudents[u]) :
                      data[k].students[j].attended

\* the cells of a student in the matrix that show the word
CellsShowing(username, words) ==
    { r \in 1..Len(report.detail.classList) :
        \E u \in 1..Len(report.detail.uniqueStudents) :
            /\ report.detail.uniqueStudents[u] = username
            /\ report.detail.classList[r].cells[u] \in words }

\* C30: for every student of a course the per-course summary agrees with
\* the matrix of the same course: the attended, cancelled and no-show counts
\* are the numbers of cells of the student showing each word, and enrolled
\* is the number of non-blank cells and is attended + no-show + cancelled.
C30_SummaryAgreesWithMatrix ==
    (CourseDetailShown /\ report.courseType = "fundae") =>
        \A r \in 1..Len(report.studentOverview) :
            LET row == report.studentOverview[r]
                cells(words) == Cardinality(CellsShowing(row.username, words))
            IN /\ row.attended = cells({"attended"})
               /\ row.cancelled = cells({"cancelled"})
               /\ row.noShow = cells({"no show"})
               /\ row.enrolled = cells({"attended", "cancelled", "no show"})
               /\ row.enrolled = row.attended + row.noShow + row.cancelled

\* What holds of the summary: it has the students of the matrix, in its
\* order, and the counters of a student add up to enrolled.
SummaryOfMatrixStudents ==
    (CourseDetailShown /\ report.courseType = "fundae") =>
        /\ [r \in 1..Len(report.studentOverview) |-> report.studentOverview[r].username]
              = report.detail.uniqueStudents
        /\ \A r \in 1..Len(report.studentOverview) :
              LET row == report.studentOverview[r] IN
              /\ row.enrolled = row.attended + row.noShow + row.cancelled
              /\ row.enrolled >= Cardinality(CellsShowing(row.username,
                                                 {"attended", "cancelled", "no show"}))

-----------------------------------------------------------------------------
(* Properties of the student report *)

StudentReportShown == report.kind = "student"

\* the (session, student position) pairs of the model
AllParticipations ==
    UNION { {<<k, j>> : j \in 1..Len(data[k].students)} : k \in 1..Len(data) }

\* the participations the three filtering rules keep
Kept(options) ==
    { p \in AllParticipations :
        LET cls == data[p[1]]
            s == cls.students[p[2]]
        IN /\ s.username # ""
           /\ CASE options.filterMode = "company" ->
                      options.companyId = "ALL" \/ cls.company = options.companyId
                [] options.filterMode = "custom" -> s.username \in options.customList
                [] OTHER -> TRUE }

KeptOf(u, options) == { p \in Kept(options) : data[p[1]].students[p[2]].username = u }

RowsOf(u) == { r \in 1..Len(report.rows) : report.rows[r].username = u }

\* C15: the report has one row for each username with a kept participation
\* and no other row, and the classes counted for the student are exactly
\* its kept participations: all of a session of another company are dropped
\* in company mode, only those of unlisted students in custom mode, none
\* (but those without username) in all mode or with the ALL wildcard.
C15_StudentReportFiltering ==
    StudentReportShown =>
        /\ \A r \in 1..Len(report.rows) :
              /\ RowsOf(report.rows[r].username) = {r}
              /\ KeptOf(report.rows[r].username, report.options) # {}
              /\ report.rows[r].totalGroup + report.rows[r].totalPrivate
                    = Cardinality(KeptOf(report.rows[r].username, report.options))
        /\ \A p \in Kept(report.options) :
              RowsOf(data[p[1]].students[p[2]].username) # {}

\* company mode with a specific company: a student has a row from a session
\* of that company and also sits in a session of another company; and a
\* session of the chosen company has a student without username
C15_Witness_CompanyExcludesSession ==
    /\ StudentReportShown
    /\ report.options.filterMode = "company"
    /\ report.options.companyId # "ALL"
    /\ \E r \in 1..Len(report.rows) :
          \E p \in AllParticipations :
              /\ data[p[1]].students[p[2]].username = report.rows[r].username
              /\ data[p[1]].company # report.options.companyId
    /\ \E p \in AllParticipations :
          /\ data[p[1]].company = report.options.companyId
          /\ data[p[1]].students[p[2]].username = ""

\* the kept participations of a student that have an enrolment timestamp
Enrolments(u, options) ==
    { p \in KeptOf(u, options) : data[p[1]].students[p[2]].enrolledTime # "" }

\* start minus enrolment timestamp of a participation, in seconds
EnrolledBefore(p) ==
    JsSub(DateSeconds(data[p[1]].scheduledStart),
          DateSeconds(data[p[1]].students[p[2]].enrolledTime))

\* C20: a student entry without enrolment timestamp has a blank
\* enrolmentInterval in the model, and in the student report the average
\* enrolment interval is blank for a student none of whose kept
\* participations has the timestamp, and otherwise the mean, to 2 decimals,
\* of start minus enrolment over the participations that have it.
C20_EnrolmentAverageSkipsMissing ==
    /\ \A p \in AllParticipations :
          data[p[1]].students[p[2]].enrolledTime = ""
              => data[p[1]].students[p[2]].enrolmentInterval = Blank
    /\ StudentReportShown =>
          \A r \in 1..Len(report.rows) :
              LET E == Enrolments(report.rows[r].username, report.options)
                  shown == report.rows[r].avgEnrol
                  Sum[S \in SUBSET E] ==
                      IF S = {} THEN 0
                      ELSE LET p == CHOOSE q \in S : TRUE
                           IN EnrolledBefore(p) + Sum[S \ {p}]
              IN IF E = {} THEN shown = Blank
                 ELSE /\ shown # Blank
                      /\ IF \E p \in E : IsNaN(EnrolledBefore(p)) THEN IsNaN(shown[1])
                         ELSE /\ ~IsNaN(shown[1])
                              /\ JsAbs(36 * Cardinality(E) * shown[1] - Sum[E])
                                    <= 18 * Cardinality(E)

\* a student with one participation that has the timestamp and one that has
\* not, whose average is a number other than 0, next to a student whose only
\* participation has none
C20_Witness_MixedAndMissing ==
    /\ StudentReportShown
    /\ \E r \in 1..Len(report.rows) :
          LET u == report.rows[r].username IN
          /\ Enrolments(u, report.options) # {}
          /\ Enrolments(u, report.options) # KeptOf(u, report.options)
          /\ report.rows[r].avgEnrol # Blank
          /\ report.rows[r].avgEnrol[1] > 0
    /\ \E r \in 1..Len(report.rows) :
          /\ Enrolments(report.rows[r].username, report.options) = {}
          /\ report.rows[r].avgEnrol = Blank

\* the kept participations of a student with the flags of a counter
Counted(u, options, cancelled, attended) ==
    { p \in KeptOf(u, options) :
        /\ data[p[1]].students[p[2]].cancelled = cancelled
        /\ cancelled \/ data[p[1]].students[p[2]].attended = attended }

\* a rate cell is the counter over the total, to 2 decimals, within 0 and 1
IsRateOf(cell, counter, total) ==
    /\ cell # Blank
    /\ cell[1] \in 0..100
    /\ JsAbs(2 * (cell[1] * total - 100 * counter)) <= total

\* C25: every kept participation of a student increments exactly one of
\* attended, noShow and cancelled, so the three add up to totalGroup +
\* totalPrivate, and cancelledLate is at most cancelled; the four rates are
\* the counters over that total, fractions from 0 to 1, blank when the
\* total is 0.
C25_StudentCountersAndRates ==
    StudentReportShown =>
        \A r \in 1..Len(report.rows) :
            LET row == report.rows[r]
                total == row.totalGroup + row.totalPrivate
                of(c, a) == Cardinality(Counted(row.username, report.options, c, a))
            IN /\ row.cancelled = of(TRUE, TRUE)
               /\ row.attended = of(FALSE, TRUE)
               /\ row.noShow = of(FALSE, FALSE)
               /\ row.attended + row.noShow + row.cancelled = total
               /\ row.cancelledLate \in 0..row.cancelled
               /\ IF total = 0
                  THEN /\ row.attRate = Blank /\ row.noShowRate = Blank
                       /\ row.cancelRate = Blank /\ row.lateCancelRate = Blank
                  ELSE /\ IsRateOf(row.attRate, row.attended, total)
                       /\ IsRateOf(row.noShowRate, row.noShow, total)
                       /\ IsRateOf(row.cancelRate, row.cancelled, total)
                       /\ IsRateOf(row.lateCancelRate, row.cancelledLate, total)

\* a student who attended one class, missed one and cancelled one inside
\* the window, with each rate a third
C25_Witness_OneOfEach ==
    /\ StudentReportShown
    /\ \E r \in 1..Len(report.rows) :
          /\ report.rows[r].attended = 1
          /\ report.rows[r].noShow = 1
          /\ report.rows[r].cancelled = 1
          /\ report.rows[r].cancelledLate = 1
          /\ report.rows[r].attRate = <<33>>
          /\ report.rows[r].lateCancelRate = <<33>>

-----------------------------------------------------------------------------
(* Properties of the teacher reports *)

TeacherReportShown == panel = "teacherReportOutput" /\ report.kind = "teacher"

\* the (session, student) pairs of the model
Pairs == UNION { {<<k, j>> : j \in 1..Len(data[k].students)} : k \in 1..Len(data) }

\* the rows of the feedback listing pushed for a pair
FeedbackRowsFor(p) ==
    { r \in 1..Len(report.feedback) :
        /\ report.feedback[r].slug = data[p[1]].slug
        /\ report.feedback[r].row = data[p[1]].students[p[2]].row }

HasTeacherName(k) == ~Falsy(teacherUsername(data[k]))

GaveFeedback(p) ==
    \/ OrEmpty(data[p[1]].students[p[2]].feedback) # ""
    \/ OrEmpty(data[p[1]].students[p[2]].rating) # ""

GaveTrimmedFeedback(p) ==
    \/ Trim(OrEmpty(data[p[1]].students[p[2]].feedback)) # ""
    \/ Trim(OrEmpty(data[p[1]].students[p[2]].rating)) # ""

\* C17 as stated: the feedback listing has exactly one row for every
\* (session, student) pair whose feedback text or rating is non-empty, with
\* or without a teacher on the session, and no other rows.
C17_OneRowPerFeedbackPair ==
    TeacherReportShown =>
        /\ \A p \in Pairs :
              Cardinality(FeedbackRowsFor(p)) = IF GaveFeedback(p) THEN 1 ELSE 0
        /\ Len(report.feedback) = Cardinality({ p \in Pairs : GaveFeedback(p) })

\* C17 amended: the feedback listing has exactly one row for every (session,
\* student) pair whose session has a teacher with a non-empty username and
\* whose feedback text or rating is non-empty after trimming, and no other
\* rows; the row carries the teacher, the student, the session start and
\* the trimmed feedback and rating.  Pairs of a session without teacher are
\* not listed.
C17_OneRowPerFeedbackPairOfTaughtSession ==
    TeacherReportShown =>
        /\ \A p \in Pairs :
              Cardinality(FeedbackRowsFor(p)) =
                  IF HasTeacherName(p[1]) /\ GaveTrimmedFeedback(p) THEN 1 ELSE 0
        /\ Len(report.feedback) =
              Cardinality({ p \in Pairs : HasTeacherName(p[1]) /\ GaveTrimmedFeedback(p) })
        /\ \A p \in Pairs : \A r \in FeedbackRowsFor(p) :
              /\ report.feedback[r].teacher = teacherUsername(data[p[1]])
              /\ report.feedback[r].student = data[p[1]].students[p[2]].username
              /\ report.feedback[r].classDate = data[p[1]].scheduledStart
              /\ report.feedback[r].feedback =
                     Trim(OrEmpty(data[p[1]].students[p[2]].feedback))
              /\ report.feedback[r].rating =
                     Trim(OrEmpty(data[p[1]].students[p[2]].rating))

\* a listing with a row, next to a session without teacher whose student
\* gave feedback and a taught session whose student's feedback is blank space
C17_Witness_TeacherlessAndBlankFeedback ==
    /\ TeacherReportShown
    /\ Len(report.feedback) > 0
    /\ \E p \in Pairs : ~HasTeacherName(p[1]) /\ GaveFeedback(p)
    /\ \E p \in Pairs : HasTeacherName(p[1]) /\ GaveFeedback(p) /\ ~GaveTrimmedFeedback(p)

\* the sessions of the model that a teacher report of the type counts for
\* the teacher
TaughtBy(teacher, private) ==
    { k \in 1..Len(data) :
        /\ teacherUsername(data[k]) = teacher
        /\ IF private THEN data[k].available_seats = 1
           ELSE ~IsNaN(data[k].available_seats) /\ data[k].available_seats > 1 }

SessionCancelled(k) == ~Falsy(data[k].cancelledBy)

EveryStudentAbsent(k) == \A j \in 1..Len(data[k].students) : ~data[k].students[j].attended

StudentNoShowSession(k) ==
    ~SessionCancelled(k) /\ teacherAttendedOf(data[k]) /\ EveryStudentAbsent(k)

TeacherNoShowSession(k) ==
    ~SessionCancelled(k) /\ ~teacherAttendedOf(data[k])

\* C23: in the private Teacher Performance report a teacher's student
\* no-shows are the teacher's private sessions that are not cancelled, where
\* the teacher attended and every student is absent; the teacher no-shows
\* are the non-cancelled private sessions the teacher did not attend; no
\* session is counted in both.
C23_PrivateNoShowCounts ==
    TeacherReportShown =>
        \A r \in 1..Len(report.private) :
            LET row == report.private[r]
                mine == TaughtBy(row.teacher, TRUE)
                student == {k \in mine : StudentNoShowSession(k)}
                teacher == {k \in mine : TeacherNoShowSession(k)}
            IN /\ row.studentNoShows = Cardinality(student)
               /\ row.teacherNoShows = Cardinality(teacher)
               /\ student \cap teacher = {}
               /\ row.studentNoShows + row.teacherNoShows <= row.totalRemaining

\* a teacher's private row counts one student no-show and one teacher no-show
C23_Witness_BothKindsOfNoShow ==
    /\ TeacherReportShown
    /\ \E r \in 1..Len(report.private) :
          /\ report.private[r].totalBooked = 2
          /\ report.private[r].studentNoShows = 1
          /\ report.private[r].teacherNoShows = 1
    /\ \E k \in 1..Len(data) : data[k].students # <<>> /\ StudentNoShowSession(k)

\* the attribution columns a session is counted under in its report
ColumnsOf(k, private) ==
    {c \in (IF private THEN {"teacher", "student", "admin"} ELSE {"teacher", "admin"}) :
        CASE c = "teacher" -> data[k].cancelledByTeacher
          [] c = "student" -> data[k].cancelledByStudent
          [] c = "admin" -> data[k].cancelledByAdmin}

\* C29: in both Teacher Performance reports, for every teacher row the total
\* booked is the total remaining plus the sum of the cancellation columns of
\* that report, and every booked session is either remaining or counted
\* under exactly one cancellation column.
C29_BookedIsRemainingPlusCancelled ==
    TeacherReportShown =>
        /\ \A r \in 1..Len(report.private) :
              LET row == report.private[r] IN
              /\ row.totalBooked = row.totalRemaining + row.cancelledByTeacher
                                      + row.cancelledByStudent + row.cancelledByAdmin
              /\ row.totalBooked - row.totalRemaining =
                    Cardinality({k \in TaughtBy(row.teacher, TRUE) : SessionCancelled(k)})
        /\ \A r \in 1..Len(report.group) :
              LET row == report.group[r] IN
              /\ row.totalBooked = row.totalRemaining + row.cancelledByTeacher
                                      + row.cancelledByAdmin
              /\ row.totalBooked - row.totalRemaining =
                    Cardinality({k \in TaughtBy(row.teacher, FALSE) : SessionCancelled(k)})

\* What holds of both reports: the private rows add up, and a group row
\* falls short by the group sessions a student cancelled.
BookedByAttribution ==
    TeacherReportShown =>
        /\ \A r \in 1..Len(report.private) :
              LET row == report.private[r] IN
              row.totalBooked = row.totalRemaining + row.cancelledByTeacher
                                  + row.cancelledByStudent + row.cancelledByAdmin
        /\ \A r \in 1..Len(report.group) :
              LET row == report.group[r]
                  byStudentOnly == {k \in TaughtBy(row.teacher, FALSE) :
                                      /\ SessionCancelled(k)
                                      /\ ColumnsOf(k, FALSE) = {}}
              IN row.totalBooked = row.totalRemaining + row.cancelledByTeacher
                                     + row.cancelledByAdmin + Cardinality(byStudentOnly)

-----------------------------------------------------------------------------
(* Properties of all report builders *)

\* what the handler of the visible output panel renders from a model
Rendered(model) ==
    CASE report.kind = "hourCount" ->
           \E selectedDurations \in SUBSET (DOMAIN durationFilter) :
              LET filteredData == selectedData(model, selectedDurations) IN
              /\ report.filteredData = filteredData
              /\ report.detailed =
                     buildTeacherHourCountCSV(filteredData, report.settings, FALSE)
              /\ report.simple =
                     buildTeacherHourCountCSV(filteredData, report.settings, TRUE)
      [] report.kind = "overview" ->
           /\ report.tallies = buildOverviewData(model, report.cancellationWindow)
           /\ report.averages = buildPrivateAveragesTable(model)
      [] report.kind = "teacher" ->
           /\ report.private = buildTeacherPrivateClassesCSV(model)
           /\ report.group = buildTeacherGroupClassesCSV(model)
           /\ report.feedback = buildTeacherFeedbackCSV(model)
      [] report.kind = "allCourses" ->
           report.rows = buildAllCoursesOverviewCSV(model)
      [] report.kind = "courseDetail" ->
           /\ report.detail = buildCourseDetailReport(model, report.courseId)
           /\ report.courseType = "fundae" =>
                 report.studentOverview =
                     buildCourseStudentOverviewCSV(model, report.courseId)
      [] report.kind = "student" ->
           report.rows = buildStudentReport(model, report.options)
      [] OTHER -> TRUE

=============================================================================
